---- MODULE Spec2Model ----
(***************************************************************************)
(* diff-intent: the result cache of src/core/cache.ts as a state machine.  *)
(*                                                                         *)
(* The cache is one directory (CACHE_DIR) holding one file per            *)
(* fingerprint.  It is shared by every invocation of the tool without any  *)
(* locking, so each cache function is modelled as the sequence of file     *)
(* system calls it makes, and several invocations (Procs) interleave at    *)
(* the granularity of those calls.  A file system call may fail (the try / *)
(* catch blocks of cache.ts are what the failures exercise).               *)
(***************************************************************************)
EXTENDS Integers, Sequences, FiniteSets, TLC

\* ------------------------------------------------------------------ bounds
NumProcs == 2
MaxOps == 3
MaxFaults == 1
MaxDays == 2
MaxMs == 1
MaxRuns == 2
MaxLines == 4
MaxFiles == 2
MaxHunks == 2
MaxHunkLines == 2

\* ------------------------------------------------------- program constants
DEFAULT_TTL_HOURS == 24

Procs == 1..NumProcs

\* Strings are sequences of one-character strings.
Providers == { <<"g">> }
Models == { <<"m">> }
Diffs == { <<"a">>, <<"a", " ">> }
Keys == [diff : Diffs, provider : Providers, model : Models]
NoKey == [diff |-> <<>>, provider |-> <<>>, model |-> <<>>]

\* SummaryResult values: token sequences whose serialisations differ in length.
Results == { <<1>>, <<2, 2>> }
NoResult == <<>>

TTLs == {0, DEFAULT_TTL_HOURS}

NULL == -1

\* An optional value that is not set (undefined) is the empty tuple, one that
\* is set holds its value.
UNDEF == <<>>
Some(v) == <<v>>

\* ------------------------------------------------------------ fingerprint
\* hashDiff: sha256 over `${provider}:${model}:${diff}`.  The digest is taken
\* to be collision-free and is identified with the text that is hashed.
hashDiffTrimmed(diff, provider, model) ==
  provider \o <<":">> \o model \o <<":">> \o
    SelectSeq(diff, LAMBDA c : c # " ")

hashDiff(diff, provider, model) ==
  provider \o <<":">> \o model \o <<":">> \o diff

getCachePath(hash) == hash \o <<".json">>

EndsWithJson(file) == Len(file) >= 1 /\ file[Len(file)] = ".json"

PathOfKey(k) == getCachePath(hashDiff(k.diff, k.provider, k.model))

Paths == { PathOfKey(k) : k \in Keys }

\* ------------------------------------------------------- entry (de)coding
\* A file is a sequence of cells; JSON.stringify(entry) writes an opening
\* brace, the result, the timestamp, the provider, the model, a closing brace.
Cell(k, n, s) == [k |-> k, n |-> n, s |-> s]
LBRACE == Cell("{", 0, <<>>)
RBRACE == Cell("}", 0, <<>>)

CacheEntry(result, timestamp, provider, model) ==
  [result |-> result, timestamp |-> timestamp, provider |-> provider, model |-> model]

Stringify(entry) ==
  <<LBRACE>>
    \o [i \in 1..Len(entry.result) |-> Cell("result", entry.result[i], <<>>)]
    \o << Cell("timestamp", entry.timestamp, <<>>),
          Cell("provider", 0, entry.provider),
          Cell("model", 0, entry.model),
          RBRACE >>

\* A parser that only looks for the braces at both ends.
ParseOkBraces(content) ==
  /\ Len(content) >= 5
  /\ content[1] = LBRACE
  /\ content[Len(content)] = RBRACE

\* JSON.parse: succeeds exactly on a complete serialisation, with nothing
\* missing and nothing after the closing brace.
ParseOk(content) ==
  LET n == Len(content) IN
    /\ n >= 5
    /\ content[1] = LBRACE
    /\ content[n] = RBRACE
    /\ content[n - 1].k = "model"
    /\ content[n - 2].k = "provider"
    /\ content[n - 3].k = "timestamp"
    /\ \A i \in 2..(n - 4) : content[i].k = "result"

ParseEntry(content) ==
  LET n == Len(content) IN
    CacheEntry([i \in 1..(n - 5) |-> content[i + 1].n],
               content[n - 3].n, content[n - 2].s, content[n - 1].s)

\* ------------------------------------------------------------- expiry test
TtlMs(ttlHours) == ttlHours * 60 * 60 * 1000

\* The instants Date.now() takes: the first milliseconds, then whole default TTLs.
Instants == (0..MaxMs) \cup { d * TtlMs(DEFAULT_TTL_HOURS) : d \in 1..MaxDays }

IsExpiredGeq(ageMs, ttlMs) == ageMs >= ttlMs

IsExpired(ageMs, ttlMs) == ageMs > ttlMs

\* ================================================================ the diff
\* A text is the sequence of its characters.  NL is the line feed.
NL == "\n"

DIFF_GIT ==
  <<"d", "i", "f", "f", " ", "-", "-", "g", "i", "t", " ">>
A_SLASH ==
  <<"a", "/">>
B_SLASH ==
  <<" ", "b", "/">>
BINARY_FILES ==
  <<"B", "i", "n", "a", "r", "y", " ", "f", "i", "l", "e", "s">>
NEW_FILE_MODE ==
  <<"n", "e", "w", " ", "f", "i", "l", "e", " ", "m", "o", "d", "e">>
DELETED_FILE_MODE ==
  <<"d", "e", "l", "e", "t", "e", "d", " ", "f", "i", "l", "e", " ", "m",
    "o", "d", "e">>
UNKNOWN ==
  <<"u", "n", "k", "n", "o", "w", "n">>

StartsWith(s, prefix) ==
  Len(s) >= Len(prefix) /\ SubSeq(s, 1, Len(prefix)) = prefix

\* s.slice(n)
Slice(s, n) == SubSeq(s, n + 1, Len(s))

\* str.split('\n'): the pieces between the line feeds; always at least one.
RECURSIVE Split(_)
Split(str) ==
  IF \A i \in 1..Len(str) : str[i] # NL
    THEN <<str>>
    ELSE LET i == CHOOSE j \in 1..Len(str) :
                    str[j] = NL /\ \A k \in 1..(j - 1) : str[k] # NL
         IN <<SubSeq(str, 1, i - 1)>> \o Split(Slice(str, i))

\* arr.join('\n'); the empty array gives the empty text.
RECURSIVE Join(_)
Join(arr) ==
  IF Len(arr) = 0 THEN <<>>
  ELSE IF Len(arr) = 1 THEN arr[1]
  ELSE arr[1] \o <<NL>> \o Join(Tail(arr))

\* ---------------------------------------------------------- splitDiffByFile
\* line.startsWith('diff --git ')
IsMarkerStrict(line) == StartsWith(line, DIFF_GIT \o A_SLASH)

IsMarker(line) == StartsWith(line, DIFF_GIT)

\* The loop over the lines, from line i on, with the chunks pushed and the
\* lines of the current chunk so far; then the push after the loop.
RECURSIVE SplitLoop(_, _, _, _)
SplitLoop(lines, i, chunks, current) ==
  IF i > Len(lines)
    THEN IF Len(current) > 0 THEN Append(chunks, Join(current)) ELSE chunks
    ELSE IF IsMarker(lines[i]) /\ Len(current) > 0
           THEN SplitLoop(lines, i + 1, Append(chunks, Join(current)), <<lines[i]>>)
           ELSE SplitLoop(lines, i + 1, chunks, Append(current, lines[i]))

splitDiffByFile(diff) == SplitLoop(Split(diff), 1, <<>>, <<>>)

\* ------------------------------------------------------------ parseFileDiff
\* `.` matches every character but a line terminator.
Dots(s) == Len(s) >= 1 /\ \A i \in 1..Len(s) : s[i] \notin {NL, "\r"}

NoMatch == [ok |-> FALSE, g1 |-> <<>>, g2 |-> <<>>]

\* A header pattern without the a/ and b/ prefixes: any two words.
MatchHeaderAnyPaths(line) ==
  LET rest == Slice(line, Len(DIFF_GIT))
      ks == { k \in 2..(Len(rest) - 1) : rest[k] = " " }
  IN IF StartsWith(line, DIFF_GIT) /\ ks # {}
       THEN LET k == CHOOSE j \in ks : \A i \in ks : i <= j
            IN [ok |-> TRUE, g1 |-> SubSeq(rest, 1, k - 1), g2 |-> Slice(rest, k)]
       ELSE NoMatch

\* line.match(/^diff --git a\/(.+) b\/(.+)$/): the first group is greedy, so
\* it ends at the last ` b/` that leaves something for the second.
MatchHeader(line) ==
  LET pre == DIFF_GIT \o A_SLASH
      rest == Slice(line, Len(pre))
      ks == { k \in 2..(Len(rest) - 3) :
                /\ SubSeq(rest, k, k + 2) = B_SLASH
                /\ Dots(SubSeq(rest, 1, k - 1))
                /\ Dots(Slice(rest, k + 2)) }
  IN IF StartsWith(line, pre) /\ ks # {}
       THEN LET k == CHOOSE j \in ks : \A i \in ks : i <= j
            IN [ok |-> TRUE, g1 |-> SubSeq(rest, 1, k - 1), g2 |-> Slice(rest, k + 2)]
       ELSE NoMatch

DigitChars == <<"0", "1", "2", "3", "4", "5", "6", "7", "8", "9">>

IsDigit(c) == \E i \in 1..10 : DigitChars[i] = c

DigitVal(c) == (CHOOSE i \in 1..10 : DigitChars[i] = c) - 1

\* \d+ at the start of s: the digits it takes (none: no match).
LeadDigits(s) ==
  LET n == CHOOSE k \in 0..Len(s) :
             /\ \A i \in 1..k : IsDigit(s[i])
             /\ k < Len(s) => ~IsDigit(s[k + 1])
  IN SubSeq(s, 1, n)

\* Number.parseInt(digits, 10)
RECURSIVE ParseInt(_)
ParseInt(ds) ==
  IF Len(ds) = 0 THEN 0
  ELSE 10 * ParseInt(SubSeq(ds, 1, Len(ds) - 1)) + DigitVal(ds[Len(ds)])

\* (?:,(\d+))? at the start of s: the digits of the group (undefined: none)
\* and what follows the group.
OptCount(s) ==
  IF Len(s) >= 2 /\ s[1] = "," /\ IsDigit(s[2])
    THEN [digits |-> LeadDigits(Slice(s, 1)),
          rest |-> Slice(s, 1 + Len(LeadDigits(Slice(s, 1))))]
    ELSE [digits |-> <<>>, rest |-> s]

NoHunkMatch == [ok |-> FALSE, g1 |-> <<>>, g2 |-> <<>>, g3 |-> <<>>, g4 |-> <<>>]

\* line.match(/^@@ -(\d+)(?:,(\d+))? \+(\d+)(?:,(\d+))? @@/)
MatchHunk(line) ==
  LET r0 == Slice(line, 4)
      d1 == LeadDigits(r0)
      c1 == OptCount(Slice(r0, Len(d1)))
      r1 == Slice(c1.rest, 2)
      d3 == LeadDigits(r1)
      c3 == OptCount(Slice(r1, Len(d3)))
  IN IF /\ StartsWith(line, <<"@", "@", " ", "-">>)
        /\ Len(d1) >= 1
        /\ StartsWith(c1.rest, <<" ", "+">>)
        /\ Len(d3) >= 1
        /\ StartsWith(c3.rest, <<" ", "@", "@">>)
       THEN [ok |-> TRUE, g1 |-> d1, g2 |-> c1.digits, g3 |-> d3, g4 |-> c3.digits]
       ELSE NoHunkMatch

ParsedLine(type, content, oldLineNumber, newLineNumber) ==
  [type |-> type, content |-> content,
   oldLineNumber |-> oldLineNumber, newLineNumber |-> newLineNumber]

ParsedHunk(oldStart, oldCount, newStart, newCount, lines) ==
  [oldStart |-> oldStart, oldCount |-> oldCount,
   newStart |-> newStart, newCount |-> newCount, lines |-> lines]

ParsedFile(oldPath, newPath) ==
  [oldPath |-> oldPath, newPath |-> newPath, hunks |-> <<>>, isBinary |-> FALSE,
   isNew |-> FALSE, isDeleted |-> FALSE, isRenamed |-> oldPath # newPath]

\* hunkMatch[2] || '1'
\* A count written as 0 is taken for a missing one.
OrOneOrZero(digits) ==
  IF Len(digits) = 0 \/ ParseInt(digits) = 0 THEN <<"1">> ELSE digits

OrOne(digits) == IF Len(digits) = 0 THEN <<"1">> ELSE digits

\* The first loop, from line i on: the flags; done at the first Binary line.
RECURSIVE MetaLoop(_, _, _)
MetaLoop(lines, i, file) ==
  IF i > Len(lines) THEN file
  ELSE IF StartsWith(lines[i], BINARY_FILES) THEN [file EXCEPT !.isBinary = TRUE]
  ELSE MetaLoop(lines, i + 1,
                [file EXCEPT
                   !.isNew = @ \/ StartsWith(lines[i], NEW_FILE_MODE),
                   !.isDeleted = @ \/ StartsWith(lines[i], DELETED_FILE_MODE)])

PLUS3 == <<"+", "+", "+">>
MINUS3 == <<"-", "-", "-">>

\* line.startsWith('+') without the test for '+++'
IsAdditionAnyPlus(line) == StartsWith(line, <<"+">>)

\* line.startsWith('+') && !line.startsWith('+++')
IsAddition(line) == StartsWith(line, <<"+">>) /\ ~StartsWith(line, PLUS3)

\* line.startsWith('-') && !line.startsWith('---')
IsDeletion(line) == StartsWith(line, <<"-">>) /\ ~StartsWith(line, MINUS3)

\* A context line that advances only the old counter.
AfterContextOldOnly(nums) == [old |-> nums.old + 1, new |-> nums.new]

\* oldLineNum++, newLineNum++ of a context line
AfterContext(nums) == [old |-> nums.old + 1, new |-> nums.new + 1]

\* The second loop, from line i on: hunks pushed so far, the open hunk (none:
\* the empty sequence) and the two counters; then the push after the loop.
RECURSIVE HunkLoop(_, _, _, _, _)
HunkLoop(lines, i, hunks, currentHunk, nums) ==
  IF i > Len(lines) THEN hunks \o currentHunk
  ELSE
    LET line == lines[i]
        hunkMatch == MatchHunk(line)
        push(l) == << [currentHunk[1] EXCEPT !.lines = Append(@, l)] >>
    IN IF hunkMatch.ok
         THEN HunkLoop(lines, i + 1, hunks \o currentHunk,
                       << ParsedHunk(ParseInt(hunkMatch.g1),
                                     ParseInt(OrOne(hunkMatch.g2)),
                                     ParseInt(hunkMatch.g3),
                                     ParseInt(OrOne(hunkMatch.g4)),
                                     << ParsedLine("header", line, UNDEF, UNDEF) >>) >>,
                       [old |-> ParseInt(hunkMatch.g1), new |-> ParseInt(hunkMatch.g3)])
       ELSE IF Len(currentHunk) = 0
         THEN HunkLoop(lines, i + 1, hunks, currentHunk, nums)
       ELSE IF StartsWith(line, <<" ">>)
         THEN HunkLoop(lines, i + 1, hunks,
                       push(ParsedLine("context", Slice(line, 1),
                                       Some(nums.old), Some(nums.new))),
                       AfterContext(nums))
       ELSE IF IsAddition(line)
         THEN HunkLoop(lines, i + 1, hunks,
                       push(ParsedLine("addition", Slice(line, 1), UNDEF, Some(nums.new))),
                       [nums EXCEPT !.new = @ + 1])
       ELSE IF IsDeletion(line)
         THEN HunkLoop(lines, i + 1, hunks,
                       push(ParsedLine("deletion", Slice(line, 1), Some(nums.old), UNDEF)),
                       [nums EXCEPT !.old = @ + 1])
       ELSE HunkLoop(lines, i + 1, hunks, currentHunk, nums)

\* A binary file whose hunks are parsed all the same.
HunksOfAnyFile(file, lines) == HunkLoop(lines, 1, <<>>, <<>>, [old |-> 0, new |-> 0])

\* return file at the Binary line, before the second loop
HunksOf(file, lines) ==
  IF file.isBinary THEN <<>> ELSE HunkLoop(lines, 1, <<>>, <<>>, [old |-> 0, new |-> 0])

\* The file record, or nothing (null) when the first line is no header.
parseFileDiff(fileDiff) ==
  LET lines == Split(fileDiff)
      match == MatchHeader(lines[1])
      file == MetaLoop(lines, 1, ParsedFile(match.g1, match.g2))
  IN IF ~match.ok THEN <<>>
     ELSE << [file EXCEPT !.hunks = HunksOf(file, lines)] >>

RECURSIVE ParseLoop(_, _)
ParseLoop(fileDiffs, i) ==
  IF i > Len(fileDiffs) THEN <<>>
  ELSE parseFileDiff(fileDiffs[i]) \o ParseLoop(fileDiffs, i + 1)

parseDiff(diff) == ParseLoop(splitDiffByFile(diff), 1)

\* The first group of the match, the old path, is returned.
getFileNameFromDiffOldPath(fileDiff) ==
  LET lines == Split(fileDiff)
      hits == { i \in 1..Len(lines) : MatchHeader(lines[i]).ok }
  IN IF hits = {} THEN UNKNOWN
     ELSE MatchHeader(lines[CHOOSE i \in hits : \A j \in hits : i <= j]).g1

\* fileDiff.match(/^diff --git a\/(.+) b\/(.+)$/m): the first line that matches.
getFileNameFromDiff(fileDiff) ==
  LET lines == Split(fileDiff)
      hits == { i \in 1..Len(lines) : MatchHeader(lines[i]).ok }
  IN IF hits = {} THEN UNKNOWN
     ELSE MatchHeader(lines[CHOOSE i \in hits : \A j \in hits : i <= j]).g2

\* How many lines of the hunks of the files are of the type.
CountLines(parsed, type) ==
  Cardinality({ x \in UNION { UNION { { <<f, h, l>> : l \in 1..Len(parsed[f].hunks[h].lines) }
                                       : h \in 1..Len(parsed[f].hunks) }
                              : f \in 1..Len(parsed) } :
                  parsed[x[1]].hunks[x[2]].lines[x[3]].type = type })

getDiffStats(parsed) ==
  [filesChanged |-> Len(parsed),
   additions |-> CountLines(parsed, "addition"),
   deletions |-> CountLines(parsed, "deletion")]

\* ------------------------------------------------------------- the inputs
L_HDR_XX ==
  <<"d", "i", "f", "f", " ", "-", "-", "g", "i", "t", " ", "a", "/", "x",
    " ", "b", "/", "x">>
L_HDR_XY ==
  <<"d", "i", "f", "f", " ", "-", "-", "g", "i", "t", " ", "a", "/", "x",
    " ", "b", "/", "y">>
L_HDR_BAD ==
  <<"d", "i", "f", "f", " ", "-", "-", "g", "i", "t", " ", "x">>
L_OLD ==
  <<"-", "-", "-", " ", "a", "/", "x">>
L_NEW ==
  <<"+", "+", "+", " ", "b", "/", "x">>
L_HUNK_A ==
  <<"@", "@", " ", "-", "1", " ", "+", "2", " ", "@", "@">>
L_HUNK_B ==
  <<"@", "@", " ", "-", "7", ",", "2", " ", "+", "9", ",", "3", " ", "@",
    "@", " ", "f">>
L_CTX ==
  <<" ", "c">>
L_ADD ==
  <<"+", "a">>
L_DEL ==
  <<"-", "d">>
L_BIN ==
  <<"B", "i", "n", "a", "r", "y", " ", "f", "i", "l", "e", "s", " ", "a",
    "/", "x", " ", "a", "n", "d", " ", "b", "/", "x", " ", "d", "i", "f",
    "f", "e", "r">>
L_NEWMODE ==
  <<"n", "e", "w", " ", "f", "i", "l", "e", " ", "m", "o", "d", "e", " ",
    "1", "0", "0", "6", "4", "4">>
L_TEXT ==
  <<"x">>

\* The lines arbitrary texts are made of.
Lines == { <<>>, L_HDR_XX, L_HDR_XY, L_HDR_BAD, L_OLD, L_NEW, L_HUNK_A, L_HUNK_B,
           L_CTX, L_ADD, L_DEL, L_BIN, L_NEWMODE, L_TEXT }

SeqsUpTo(S, n) == UNION { [1..k -> S] : k \in 0..n }

\* Every text of at most MaxLines of these lines (no line: the empty text).
Texts == { Join(ls) : ls \in SeqsUpTo(Lines, MaxLines) }

\* Well-formed diffs, made from their structure: a diff is a sequence of
\* files, a file has a kind and hunks, a hunk is its content lines.
ContentLines == { L_CTX, L_ADD, L_DEL, L_NEW }

HunkBodies == SeqsUpTo(ContentLines, MaxHunkLines) \ { <<>> }

PATH_X == <<"x">>
PATH_Y == <<"y">>

\* Files with exactly n hunks.
FilesWith(n) ==
  { [kind |-> k, hunks |-> hs] : k \in {"modify", "rename"}, hs \in [1..n -> HunkBodies] }
    \cup (IF n = 0 THEN { [kind |-> "binary", hunks |-> <<>>] } ELSE {})

\* Sequences of exactly n files with at most h hunks in all.
RECURSIVE DocsOf(_, _)
DocsOf(n, h) ==
  IF n = 0 THEN { <<>> }
  ELSE UNION { { <<f>> \o d : f \in FilesWith(a), d \in DocsOf(n - 1, h - a) }
               : a \in 0..h }

Docs == UNION { DocsOf(n, MaxHunks) : n \in 1..MaxFiles }

\* n.toString()
RECURSIVE toString(_)
toString(n) ==
  IF n < 10 THEN <<DigitChars[n + 1]>>
  ELSE toString(n \div 10) \o <<DigitChars[(n % 10) + 1]>>

OldSide(body) ==
  Cardinality({ i \in 1..Len(body) : body[i][1] \in {" ", "-"} })

NewSide(body) ==
  Cardinality({ i \in 1..Len(body) : body[i][1] \in {" ", "+"} })

\* Hunk i of a file starts at old line 9 i - 8, one line further down in the
\* new file; a count of 1 is left out, as git does.
HunkRange(start, count) ==
  toString(start) \o (IF count = 1 THEN <<>> ELSE <<",">> \o toString(count))

HunkHeader(i, body) ==
  <<"@", "@", " ", "-">> \o HunkRange(9 * i - 8, OldSide(body))
    \o <<" ", "+">> \o HunkRange(9 * i - 7, NewSide(body)) \o <<" ", "@", "@">>

HunkLines(i, body) == <<HunkHeader(i, body)>> \o body

RECURSIVE HunksLines(_, _)
HunksLines(hunks, i) ==
  IF i > Len(hunks) THEN <<>>
  ELSE HunkLines(i, hunks[i]) \o HunksLines(hunks, i + 1)

NewPathOf(file) == IF file.kind = "rename" THEN PATH_Y ELSE PATH_X

FileLines(file) ==
  << DIFF_GIT \o A_SLASH \o PATH_X \o B_SLASH \o NewPathOf(file) >>
    \o (IF file.kind = "binary"
          THEN << L_BIN >>
          ELSE << L_OLD, PLUS3 \o B_SLASH \o NewPathOf(file) >>
                 \o HunksLines(file.hunks, 1))

RECURSIVE DocLines(_)
DocLines(doc) ==
  IF Len(doc) = 0 THEN <<>> ELSE FileLines(doc[1]) \o DocLines(Tail(doc))

DocText(doc) == Join(DocLines(doc))

\* ------------------------------------------------------- the ignore filter
\* The part of the path after its last slash.
Basename(path) ==
  LET slashes == { k \in 1..Len(path) : path[k] = "/" }
  IN IF slashes = {} THEN path
     ELSE Slice(path, CHOOSE k \in slashes : \A j \in slashes : j <= k)

\* A pattern matches a name as a glob: `*` stands for any run of characters,
\* every other character for itself (a pattern without `*` matches exactly).
RECURSIVE GlobMatch(_, _)
GlobMatch(name, pattern) ==
  IF pattern = <<>> THEN name = <<>>
  ELSE IF pattern[1] = "*"
    THEN \/ GlobMatch(name, Tail(pattern))
         \/ name # <<>> /\ GlobMatch(Tail(name), pattern)
  ELSE name # <<>> /\ name[1] = pattern[1] /\ GlobMatch(Tail(name), Tail(pattern))

\* The basename or the full path matches one of the patterns.
IsIgnored(fileName, patterns) ==
  \E i \in 1..Len(patterns) :
    GlobMatch(Basename(fileName), patterns[i]) \/ GlobMatch(fileName, patterns[i])

\* The sections whose file name is not ignored, in their order.
Kept(fileDiffs, patterns) ==
  LET keep(fileDiff) == ~IsIgnored(getFileNameFromDiff(fileDiff), patterns)
  IN SelectSeq(fileDiffs, keep)

filterIgnoredFiles(diff, patterns) == Join(Kept(splitDiffByFile(diff), patterns))

\* ------------------------------------------------------------ the renderer
\* The three box-drawing characters of the annotated view, one character each.
BOX_V == "U+2502"
BOX_H == "U+2500"
BOX_DR == "U+250C"

\* What chalk puts around a text: the escape sequence of each style, one
\* element each.
Style ==
  [reset |-> "ESC[0m", cyan |-> "ESC[36m", bold |-> "ESC[1m", yellow |-> "ESC[33m",
   magenta |-> "ESC[35m", dim |-> "ESC[2m", green |-> "ESC[32m",
   red |-> "ESC[31m", bgGreen |-> "ESC[42m",
   bgRed |-> "ESC[41m", black |-> "ESC[30m", white |-> "ESC[37m"]

Paint(styles, s) == IF s = <<>> THEN <<>> ELSE styles \o s \o <<Style.reset>>

OptionKeys == {"colors", "lineNumbers", "contextLines", "maxWidth"}

DEFAULT_OPTIONS ==
  [colors |-> TRUE, lineNumbers |-> TRUE, contextLines |-> 3, maxWidth |-> 100]

\* { ...DEFAULT_OPTIONS, ...options }: an absent option is UNDEF
MergeOptions(options) ==
  [k \in OptionKeys |->
     IF options[k] = UNDEF THEN DEFAULT_OPTIONS[k] ELSE options[k][1]]

\* A call returns a string or throws.
Returns(s) == [threw |-> FALSE, value |-> s]
RangeError == [threw |-> TRUE, value |-> <<>>]

Min(a, b) == IF a <= b THEN a ELSE b
Max(a, b) == IF a >= b THEN a ELSE b

\* ch.repeat(n) for n >= 0
Repeat(ch, n) == [i \in 1..n |-> ch]

\* s.padStart(n)
padStart(s, n) == Repeat(" ", n - Len(s)) \o s

STATUS_NEW == <<" ", "(", "n", "e", "w", ")">>
STATUS_DELETED == <<" ", "(", "d", "e", "l", "e", "t", "e", "d", ")">>
STATUS_RENAMED_FROM == <<" ", "(", "r", "e", "n", "a", "m", "e", "d", " ", "f", "r", "o", "m", " ">>
BINARY_FILE_CHANGED == <<" ", " ", "B", "i", "n", "a", "r", "y", " ", "f", "i", "l", "e", " ", "c", "h", "a", "n", "g", "e", "d">>

Status(file) ==
  IF file.isNew THEN STATUS_NEW
  ELSE IF file.isDeleted THEN STATUS_DELETED
  ELSE IF file.isRenamed THEN STATUS_RENAMED_FROM \o file.oldPath \o <<")">>
  ELSE <<>>

renderFileHeader(file, opts) ==
  LET fileName == file.newPath \o Status(file)
      width == Min(opts.maxWidth, Len(fileName) + 6)
      rest == <<" ">> \o Repeat(BOX_H, Max(0, width - Len(fileName) - 4))
  IN IF width - 2 < 0 THEN RangeError
     ELSE IF opts.colors
       THEN Returns(Paint(<<Style.cyan>>, <<BOX_DR, BOX_H, " ">>)
                      \o Paint(<<Style.bold, Style.cyan>>, fileName) \o Paint(<<Style.cyan>>, rest))
       ELSE Returns(<<BOX_DR, BOX_H, " ">> \o fileName \o rest)

lineNumWidth == 4

\* n?.toString().padStart(lineNumWidth) || ' '.repeat(lineNumWidth)
NumColumn(n) ==
  IF n = UNDEF THEN Repeat(" ", lineNumWidth)
  ELSE padStart(toString(n[1]), lineNumWidth)

PrefixOf(type) ==
  IF type = "addition" THEN "+" ELSE IF type = "deletion" THEN "-" ELSE " "

renderLine(line, opts) ==
  LET lineNum ==
        IF opts.lineNumbers /\ line.type # "header"
          THEN NumColumn(line.oldLineNumber) \o <<" ">>
                 \o NumColumn(line.newLineNumber) \o <<" ", BOX_V, " ">>
          ELSE <<>>
      content ==
        IF line.type = "header" THEN line.content
        ELSE <<PrefixOf(line.type)>> \o line.content
  IN IF ~opts.colors THEN lineNum \o content
     ELSE IF line.type = "header" THEN Paint(<<Style.magenta>>, content)
     ELSE IF line.type = "addition"
       THEN Paint(<<Style.dim>>, lineNum) \o Paint(<<Style.bgGreen, Style.black>>, content)
     ELSE IF line.type = "deletion"
       THEN Paint(<<Style.dim>>, lineNum) \o Paint(<<Style.bgRed, Style.white>>, content)
     ELSE Paint(<<Style.dim>>, lineNum) \o content

renderHunk(hunk, opts) ==
  Join([i \in 1..Len(hunk.lines) |-> renderLine(hunk.lines[i], opts)])

\* The lines renderDiff pushes for one file, or a throw.
RenderFile(file, opts) ==
  LET header == renderFileHeader(file, opts)
  IN IF header.threw THEN header
     ELSE IF file.isBinary
       THEN Returns(<< header.value,
                       IF opts.colors THEN Paint(<<Style.yellow>>, BINARY_FILE_CHANGED)
                       ELSE BINARY_FILE_CHANGED,
                       <<>> >>)
     ELSE Returns(<<header.value>>
                    \o [h \in 1..Len(file.hunks) |-> renderHunk(file.hunks[h], opts)]
                    \o << <<>> >>)

RECURSIVE RenderLoop(_, _, _, _)
RenderLoop(files, i, lines, opts) ==
  IF i > Len(files) THEN Returns(Join(lines))
  ELSE LET r == RenderFile(files[i], opts)
       IN IF r.threw THEN r ELSE RenderLoop(files, i + 1, lines \o r.value, opts)

renderDiff(diff, options) ==
  RenderLoop(parseDiff(diff), 1, <<>>, MergeOptions(options))

NoStats == [filesChanged |-> 0, additions |-> 0, deletions |-> 0]

\* ------------------------------------------------------ the two-column view
BOX_CROSS == "U+253C"
DIFF_TITLE == <<"D", "I", "F", "F">>
INTENT_TITLE == <<"I", "N", "T", "E", "N", "T">>

\* s.padEnd(n)
padEnd(s, n) == s \o Repeat(" ", n - Len(s))

\* s.slice(0, n): a negative n counts from the end
SliceTo(s, n) ==
  SubSeq(s, 1, IF n >= 0 THEN Min(n, Len(s)) ELSE Max(0, Len(s) + n))

\* arr[i] || '' for the 0-based index i - 1
LineOrEmpty(arr, i) == IF i <= Len(arr) THEN arr[i] ELSE <<>>

\* The right column is not cut.
SideRightUncut(line, width) == line

\* (intentLines[i] || '').slice(0, intentWidth)
SideRight(line, width) == SliceTo(line, width)

\* The row of the two-column view for the lines at one index.
SideRow(diffLines, intentLines, i, diffWidth, intentWidth, colors) ==
  LET left == padEnd(SliceTo(LineOrEmpty(diffLines, i), diffWidth), diffWidth)
      right == SideRight(LineOrEmpty(intentLines, i), intentWidth)
      coloredLeft ==
        IF i <= Len(diffLines) /\ StartsWith(diffLines[i], <<"+">>)
          THEN Paint(<<Style.green>>, left)
        ELSE IF i <= Len(diffLines) /\ StartsWith(diffLines[i], <<"-">>)
          THEN Paint(<<Style.red>>, left)
        ELSE left
  IN (IF colors THEN coloredLeft ELSE left) \o <<" ", BOX_V, " ">> \o right

renderSideBySide(diff, intent, options) ==
  LET opts == MergeOptions(options)
      diffLines == Split(diff)
      intentLines == Split(intent)
      maxLines == Max(Len(diffLines), Len(intentLines))
      diffWidth == (opts.maxWidth - 3) \div 2
      intentWidth == opts.maxWidth - diffWidth - 3
      title == IF opts.colors
                 THEN Paint(<<Style.bold, Style.cyan>>, padEnd(DIFF_TITLE, diffWidth))
                        \o <<" ", BOX_V, " ">>
                        \o Paint(<<Style.bold, Style.cyan>>, padEnd(INTENT_TITLE, intentWidth))
                 ELSE padEnd(DIFF_TITLE, diffWidth) \o <<" ", BOX_V, " ">>
                        \o padEnd(INTENT_TITLE, intentWidth)
      rule == Repeat(BOX_H, diffWidth) \o <<BOX_H, BOX_CROSS, BOX_H>>
                \o Repeat(BOX_H, intentWidth)
  IN IF diffWidth < 0 \/ intentWidth < 0 THEN RangeError
     ELSE Returns(Join(<< title, IF opts.colors THEN Paint(<<Style.dim>>, rule) ELSE rule >>
                         \o [i \in 1..maxLines |->
                               SideRow(diffLines, intentLines, i, diffWidth,
                                       intentWidth, opts.colors)]))

NoOptions == [k \in OptionKeys |-> UNDEF]

NoPx ==
  [text |-> <<>>, doc |-> <<>>, fn |-> "none", chunks |-> <<>>, parsed |-> <<>>,
   stats |-> NoStats, options |-> NoOptions, rendered |-> Returns(<<>>),
   patterns |-> <<>>, filtered |-> <<>>, intent |-> <<>>,
   keys |-> <<>>, paths |-> <<>>]

\* --------------------------------------------------------------- the files
NoFile == [exists |-> FALSE, data |-> <<>>]
File(data) == [exists |-> TRUE, data |-> data]

\* write(2) through a descriptor opened at offset 0: the bytes written replace
\* the start of the file and whatever lay beyond them stays.
WriteAt0(old, data) == data \o SubSeq(old, Len(data) + 1, Len(old))

VARIABLES
  dirExists,   \* CACHE_DIR exists
  files,       \* path -> the file at that path
  now,         \* Date.now()
  ops,         \* how many calls were made
  faults,      \* how many file system calls failed
  pc,          \* per process: where it is in the function it runs
  call,        \* per process: the function called and its arguments
  loc,         \* per process: the function's local variables
  gh,          \* per process: history of the running call
  last,        \* the call that has just returned: arguments, result, history
  stored,      \* per path: the last completed store, for the store/lookup law
  given,       \* per key: the results passed to setCache so far
  an,          \* per process: the analyzeDiff call in progress
  runs,        \* how many analyses were started
  px           \* the diff text at hand and what the parser functions made of it

vars == <<dirExists, files, now, ops, faults, pc, call, loc, gh, last, stored, given,
          an, runs, px>>

\* ------------------------------------------------------ process records
NoCall == [op |-> "none", key |-> NoKey, ttl |-> 0, result |-> NoResult]

NoLoc == [timestamp |-> 0, todo |-> {}, count |-> 0, sizeBytes |-> 0,
          oldestTimestamp |-> NULL, orphan |-> FALSE, file |-> <<>>]

NoRet == [kind |-> "none", result |-> NoResult, n |-> 0, sizeBytes |-> 0,
          oldestTimestamp |-> NULL]
RetNull == [NoRet EXCEPT !.kind = "null"]
RetVoid == [NoRet EXCEPT !.kind = "void"]
RetResult(r) == [NoRet EXCEPT !.kind = "result", !.result = r]
RetCount(n) == [NoRet EXCEPT !.kind = "count", !.n = n]
RetStats(e, s, o) ==
  [NoRet EXCEPT !.kind = "stats", !.n = e, !.sizeBytes = s, !.oldestTimestamp = o]
\* An exception that leaves the function.
RetThrow == [NoRet EXCEPT !.kind = "throw"]

\* The outermost catch block of each function: what it returns in place of
\* the exception.
GetCachedRethrow == RetThrow
GetCachedCatch == RetNull
SetCacheRethrow == RetThrow
SetCacheCatch == RetVoid
ClearCacheCatch(count) == RetCount(0)
GetCacheStatsCatch == RetStats(0, 0, NULL)
PruneExpiredCacheCatch(pruned) == RetCount(0)

NoFiles == [f \in Paths |-> NoFile]

\* History of a call, kept for stating the properties; no action reads it.
\*   flt      a file system call of this call failed
\*   alone    no other call overlapped this one
\*   clean    (store) no other store on the path, clearAll or prune overlapped
\*   origOk, amendOk, expect, expTs   (lookup) the completed store it follows
\*   at       Date.now() when the call took its decision
\*   existed  (lookup) the existence check found the file
\*   read     (lookup) the file as the call read it
\*   wrote    (store) the entry was written to the file at the path
\*   pre      the files when the call started;  removed  the paths it unlinked
\*   atf      (prune) per path, Date.now() when the call computed its age
NoGh == [flt |-> FALSE, alone |-> TRUE, clean |-> FALSE, origOk |-> FALSE,
         amendOk |-> FALSE, expect |-> NoResult, expTs |-> 0, at |-> 0,
         existed |-> FALSE, read |-> NoFile, wrote |-> FALSE,
         pre |-> NoFiles, removed |-> {},
         atf |-> [f \in Paths |-> NULL]]

NoStored == [ok |-> FALSE, okA |-> FALSE, result |-> NoResult, ts |-> 0]

NoLast == [call |-> NoCall, ret |-> NoRet, gh |-> NoGh]

\* ------------------------------------------------------------ analyzeDiff
\* The analyzeDiff call of a process: where it is, its arguments, what
\* getCached returned to it, what the provider returned, what it returns, and
\* the calls it has made so far (lookup, provider, store) in order.
NoAn == [phase |-> "none", key |-> NoKey, ttl |-> 0, noCache |-> FALSE,
         fileCache |-> UNDEF, useCache |-> FALSE, cached |-> NoRet,
         result |-> NoResult, ret |-> NoRet, events |-> <<>>,
         promptType |-> "overview"]

\* if (cached): the cached result is used only when it is there.
CachedIsHitNever(cached) == FALSE

CachedIsHit(cached) == cached.kind = "result"

\* The cache function an analysis called returns r to it.
Resume(a, r) ==
  IF a.phase = "lookup"
    THEN IF CachedIsHit(r)
           THEN [a EXCEPT !.phase = "return", !.cached = r, !.ret = r]
           ELSE [a EXCEPT !.phase = "summarize", !.cached = r]
  ELSE IF a.phase = "store"
    THEN [a EXCEPT !.phase = "return", !.ret = RetResult(a.result)]
  ELSE a

Running(q) == pc[q] # "idle"

\* A path that does not depend on the key of the call.
PathOfFirst(q) == PathOfKey([diff |-> <<"a">>, provider |-> <<"g">>, model |-> <<"m">>])

\* const hash = hashDiff(diff, provider, model); const cachePath = getCachePath(hash);
PathOf(q) == PathOfKey(call[q].key)

Destructive(op) == op \in {"clearCache", "pruneExpiredCache"}

\* Whether a file system call may fail now.
MayFail == IF faults < MaxFaults THEN BOOLEAN ELSE {FALSE}

Failed(fail) == faults' = IF fail THEN faults + 1 ELSE faults

InitCache ==
  /\ dirExists = FALSE
  /\ files = NoFiles
  /\ now = 0
  /\ ops = 0
  /\ faults = 0
  /\ pc = [p \in Procs |-> "idle"]
  /\ call = [p \in Procs |-> NoCall]
  /\ loc = [p \in Procs |-> NoLoc]
  /\ gh = [p \in Procs |-> NoGh]
  /\ last = NoLast
  /\ stored = [f \in Paths |-> NoStored]
  /\ given = [k \in Keys |-> {}]
  /\ an = [p \in Procs |-> NoAn]
  /\ runs = 0

Init == InitCache /\ px = NoPx

\* ------------------------------------------------------ history updates
\* Process p starts a call with history g: every running call is overlapped;
\* a store on one of the paths F, or clearAll / prune, makes the running
\* lookups and stores on F lose the store they relied on.
GhStart(p, g, F) ==
  [q \in Procs |->
     IF q = p THEN g
     ELSE IF ~Running(q) THEN gh[q]
     ELSE IF call[q].op \in {"getCached", "setCache"} /\ PathOf(q) \in F
       THEN [gh[q] EXCEPT !.alone = FALSE, !.clean = FALSE,
                          !.origOk = FALSE, !.amendOk = FALSE]
       ELSE [gh[q] EXCEPT !.alone = FALSE]]

StoredForget(F) ==
  [f \in Paths |-> IF f \in F THEN NoStored ELSE stored[f]]

\* A lookup unlinked path f.
GhLookupUnlinked(f) ==
  [q \in Procs |->
     IF Running(q) /\ call[q].op = "getCached" /\ PathOf(q) = f
       THEN [gh[q] EXCEPT !.amendOk = FALSE]
       ELSE gh[q]]

\* Path f was unlinked: a store that holds the file open writes to a file
\* that no longer has a name.
LocUnlinked(f) ==
  [q \in Procs |->
     IF pc[q] = "sc_write" /\ PathOf(q) = f
       THEN [loc[q] EXCEPT !.orphan = TRUE]
       ELSE loc[q]]

\* Process p enters a cache function.
Enter(p, op, key, ttl, result, first, g, F) ==
  /\ pc[p] = "idle"
  /\ ops < MaxOps
  /\ ops' = ops + 1
  /\ pc' = [pc EXCEPT ![p] = first]
  /\ call' = [call EXCEPT ![p] = [op |-> op, key |-> key, ttl |-> ttl, result |-> result]]
  /\ gh' = GhStart(p, [g EXCEPT !.alone = \A q \in Procs \ {p} : ~Running(q)], F)
  /\ stored' = StoredForget(F)
  /\ given' = IF op = "setCache" THEN [given EXCEPT ![key] = @ \cup {result}] ELSE given
  /\ last' = NoLast
  /\ UNCHANGED <<dirExists, files, now, faults, loc, px>>

\* A call from outside an analysis starts in the lowest free process slot (the
\* slots are interchangeable).
Begin(p, op, key, ttl, result, first, g, F) ==
  /\ an[p] = NoAn
  /\ \A q \in Procs : q < p => Running(q)
  /\ Enter(p, op, key, ttl, result, first, g, F)
  /\ UNCHANGED <<an, runs>>

\* Process p goes on to `next` with locals l and history g; L and G are the
\* locals and histories of all processes before that.
Goto(p, next, l, g, L, G) ==
  /\ pc' = [pc EXCEPT ![p] = next]
  /\ loc' = [L EXCEPT ![p] = l]
  /\ gh' = [G EXCEPT ![p] = g]
  /\ last' = NoLast
  /\ UNCHANGED <<call, given, an, runs, px>>

\* Process p returns r.
Finish(p, r, g, L, G) ==
  /\ pc' = [pc EXCEPT ![p] = "idle"]
  /\ call' = [call EXCEPT ![p] = NoCall]
  /\ loc' = [L EXCEPT ![p] = NoLoc]
  /\ gh' = [G EXCEPT ![p] = NoGh]
  /\ last' = [call |-> call[p], ret |-> r, gh |-> g]
  /\ an' = [an EXCEPT ![p] = Resume(@, r)]
  /\ UNCHANGED <<given, runs, px>>

\* ------------------------------------------------------------------ clock
\* Date.now(): the clock never runs backwards; between two readings any
\* amount of time may have passed.
DateNow(t) == t \in Instants /\ t >= now /\ now' = t

\* -------------------------------------------------------------- getCached
\* History of a lookup on key k that starts now.
GhGetCached(k) ==
  LET s == stored[PathOfKey(k)] IN
    [NoGh EXCEPT !.origOk = s.ok, !.amendOk = s.okA,
                 !.expect = s.result, !.expTs = s.ts]

CallGetCached(p) ==
  \E k \in Keys, ttl \in TTLs :
    Begin(p, "getCached", k, ttl, NoResult, "gc_exists", GhGetCached(k), {})

\* if (!fs.existsSync(cachePath)) return null;
GetCachedExists(p) ==
  /\ pc[p] = "gc_exists"
  /\ UNCHANGED <<dirExists, files, now, ops, faults, stored>>
  /\ IF files[PathOf(p)].exists
       THEN Goto(p, "gc_read", loc[p], [gh[p] EXCEPT !.existed = TRUE], loc, gh)
       ELSE Finish(p, RetNull, [gh[p] EXCEPT !.at = now], loc, gh)

\* readFileSync, JSON.parse, the age test; any exception returns null.
GetCachedRead(p) ==
  /\ pc[p] = "gc_read"
  /\ UNCHANGED <<dirExists, files, ops, stored>>
  /\ \E fail \in MayFail :
       LET file == files[PathOf(p)]
           g == [gh[p] EXCEPT !.flt = @ \/ fail,
                              !.read = IF fail THEN NoFile ELSE file]
       IN
         /\ Failed(fail)
         /\ IF fail \/ ~file.exists \/ ~ParseOk(file.data)
              THEN /\ Finish(p, GetCachedCatch, g, loc, gh)
                   /\ UNCHANGED now
              ELSE \E t \in Instants :
                     /\ DateNow(t)
                     /\ LET entry == ParseEntry(file.data)
                            ageMs == t - entry.timestamp
                            ttlMs == TtlMs(call[p].ttl)
                            h == [g EXCEPT !.at = t]
                        IN IF IsExpired(ageMs, ttlMs)
                             THEN Goto(p, "gc_unlink", loc[p], h, loc, gh)
                             ELSE Finish(p, RetResult(entry.result), h, loc, gh)

\* fs.unlinkSync(cachePath); return null;  (a throw also returns null)
GetCachedUnlink(p) ==
  /\ pc[p] = "gc_unlink"
  /\ \E fail \in MayFail :
       LET f == PathOf(p) IN
         /\ Failed(fail)
         /\ IF fail \/ ~files[f].exists
              THEN /\ UNCHANGED <<files, stored>>
                   /\ Finish(p, GetCachedCatch, [gh[p] EXCEPT !.flt = @ \/ fail], loc, gh)
              ELSE /\ files' = [files EXCEPT ![f] = NoFile]
                   /\ stored' = [stored EXCEPT ![f].okA = FALSE]
                   /\ Finish(p, RetNull, [gh[p] EXCEPT !.removed = @ \cup {f}],
                             LocUnlinked(f), GhLookupUnlinked(f))
  /\ UNCHANGED <<dirExists, now, ops>>

\* --------------------------------------------------------------- setCache
\* History of a store by p on key k that starts now.
GhSetCache(p, k) ==
  [NoGh EXCEPT !.clean =
     \A q \in Procs \ {p} :
       ~(Running(q) /\ ( \/ Destructive(call[q].op)
                         \/ /\ call[q].op = "setCache"
                            /\ PathOf(q) = PathOfKey(k) ))]

CallSetCache(p) ==
  \E k \in Keys, r \in Results :
    Begin(p, "setCache", k, 0, r, "sc_ensure", GhSetCache(p, k), {PathOfKey(k)})

\* ensureCacheDir(); then hashDiff and Date.now() for the entry.
SetCacheEnsureDir(p) ==
  /\ pc[p] = "sc_ensure"
  /\ UNCHANGED <<files, ops, stored>>
  /\ \E fail \in (IF dirExists THEN {FALSE} ELSE MayFail) :
       /\ Failed(fail)
       /\ IF fail
            THEN /\ Finish(p, SetCacheCatch, [gh[p] EXCEPT !.flt = TRUE], loc, gh)
                 /\ UNCHANGED <<dirExists, now>>
            ELSE \E t \in Instants :
                   /\ DateNow(t)
                   /\ dirExists' = TRUE
                   /\ Goto(p, "sc_open", [loc[p] EXCEPT !.timestamp = t], gh[p], loc, gh)

\* writeFileSync, first half: open(path, O_WRONLY | O_CREAT | O_TRUNC).
SetCacheOpen(p) ==
  /\ pc[p] = "sc_open"
  /\ \E fail \in MayFail :
       /\ Failed(fail)
       /\ IF fail
            THEN /\ UNCHANGED files
                 /\ Finish(p, SetCacheCatch, [gh[p] EXCEPT !.flt = TRUE], loc, gh)
            ELSE /\ files' = [files EXCEPT ![PathOf(p)] = File(<<>>)]
                 /\ Goto(p, "sc_write", loc[p], gh[p], loc, gh)
  /\ UNCHANGED <<dirExists, now, ops, stored>>

\* writeFileSync, second half: write(fd, JSON.stringify(entry)), close.
SetCacheWrite(p) ==
  /\ pc[p] = "sc_write"
  /\ \E fail \in MayFail :
       LET f == PathOf(p)
           entry == CacheEntry(call[p].result, loc[p].timestamp,
                               call[p].key.provider, call[p].key.model)
       IN
         /\ Failed(fail)
         /\ IF fail
              THEN /\ UNCHANGED <<files, stored>>
                   /\ Finish(p, SetCacheCatch, [gh[p] EXCEPT !.flt = TRUE], loc, gh)
              ELSE /\ files' = IF loc[p].orphan THEN files
                               ELSE [files EXCEPT ![f] =
                                       File(WriteAt0(files[f].data, Stringify(entry)))]
                   /\ stored' = [stored EXCEPT ![f] =
                                   [ok |-> gh[p].clean,
                                    okA |-> gh[p].clean /\ ~loc[p].orphan,
                                    result |-> entry.result, ts |-> entry.timestamp]]
                   /\ Finish(p, RetVoid, [gh[p] EXCEPT !.at = entry.timestamp,
                                                       !.wrote = ~loc[p].orphan],
                             loc, gh)
  /\ UNCHANGED <<dirExists, now, ops>>

\* ------------------------------------------------- directory listings
\* fs.readdirSync(CACHE_DIR), filtered by file.endsWith('.json').
JsonFiles == { f \in Paths : files[f].exists /\ EndsWithJson(f) }

\* ------------------------------------------------------------- clearCache
CallClearCache(p) ==
  Begin(p, "clearCache", NoKey, 0, NoResult, "cc_list",
        [NoGh EXCEPT !.pre = files], Paths)

\* if (!fs.existsSync(CACHE_DIR)) return 0;  const files = fs.readdirSync(...)
ClearCacheList(p) ==
  /\ pc[p] = "cc_list"
  /\ UNCHANGED <<dirExists, files, now, ops, stored>>
  /\ \E fail \in (IF dirExists THEN MayFail ELSE {FALSE}) :
       /\ Failed(fail)
       /\ IF ~dirExists \/ fail \/ JsonFiles = {}
            THEN Finish(p, IF fail THEN ClearCacheCatch(0) ELSE RetCount(0),
                        [gh[p] EXCEPT !.flt = fail], loc, gh)
            ELSE Goto(p, "cc_unlink", [loc[p] EXCEPT !.todo = JsonFiles],
                      gh[p], loc, gh)

\* One turn of the loop: fs.unlinkSync(file); count++.  A throw returns 0.
ClearCacheUnlink(p) ==
  /\ pc[p] = "cc_unlink"
  /\ \E f \in loc[p].todo, fail \in MayFail :
       /\ Failed(fail)
       /\ IF fail \/ ~files[f].exists
            THEN /\ UNCHANGED files
                 /\ Finish(p, ClearCacheCatch(loc[p].count),
                           [gh[p] EXCEPT !.flt = @ \/ fail], loc, gh)
            ELSE LET l == [loc[p] EXCEPT !.todo = @ \ {f}, !.count = @ + 1]
                     g == [gh[p] EXCEPT !.removed = @ \cup {f}]
                 IN /\ files' = [files EXCEPT ![f] = NoFile]
                    /\ IF l.todo = {}
                         THEN Finish(p, RetCount(l.count), g, LocUnlinked(f), gh)
                         ELSE Goto(p, "cc_unlink", l, g, LocUnlinked(f), gh)
  /\ UNCHANGED <<dirExists, now, ops, stored>>

\* ---------------------------------------------------------- getCacheStats
CallGetCacheStats(p) ==
  Begin(p, "getCacheStats", NoKey, 0, NoResult, "gs_list",
        [NoGh EXCEPT !.pre = files], {})

GetCacheStatsList(p) ==
  /\ pc[p] = "gs_list"
  /\ UNCHANGED <<dirExists, files, now, ops, stored>>
  /\ \E fail \in (IF dirExists THEN MayFail ELSE {FALSE}) :
       /\ Failed(fail)
       /\ IF ~dirExists \/ fail \/ JsonFiles = {}
            THEN Finish(p, IF fail THEN GetCacheStatsCatch ELSE RetStats(0, 0, NULL),
                        [gh[p] EXCEPT !.flt = fail], loc, gh)
            ELSE Goto(p, "gs_file", [loc[p] EXCEPT !.todo = JsonFiles],
                      gh[p], loc, gh)

Newer(timestamp, oldestTimestamp) ==
  IF oldestTimestamp = NULL \/ timestamp > oldestTimestamp
    THEN timestamp ELSE oldestTimestamp

\* if (oldestTimestamp === null || entry.timestamp < oldestTimestamp)
Older(timestamp, oldestTimestamp) ==
  IF oldestTimestamp = NULL \/ timestamp < oldestTimestamp
    THEN timestamp ELSE oldestTimestamp

\* One turn of the loop: statSync (a throw returns the zero record), entries++,
\* sizeBytes += size, then readFileSync and JSON.parse in their own try block.
GetCacheStatsFile(p) ==
  /\ pc[p] = "gs_file"
  /\ UNCHANGED <<dirExists, files, now, ops, stored>>
  /\ \E f \in loc[p].todo,
        io \in (IF faults < MaxFaults THEN {"ok", "stat", "read"} ELSE {"ok"}) :
       /\ Failed(io # "ok")
       /\ IF io = "stat" \/ ~files[f].exists
            THEN Finish(p, GetCacheStatsCatch,
                        [gh[p] EXCEPT !.flt = @ \/ (io # "ok")], loc, gh)
            ELSE LET data == files[f].data
                     parsed == io = "ok" /\ ParseOk(data)
                     l == [loc[p] EXCEPT
                             !.todo = @ \ {f},
                             !.count = @ + 1,
                             !.sizeBytes = @ + Len(data),
                             !.oldestTimestamp =
                                IF parsed THEN Older(ParseEntry(data).timestamp, @)
                                ELSE @]
                     g == [gh[p] EXCEPT !.flt = @ \/ (io # "ok")]
                 IN IF l.todo = {}
                      THEN Finish(p, RetStats(l.count, l.sizeBytes, l.oldestTimestamp),
                                  g, loc, gh)
                      ELSE Goto(p, "gs_file", l, g, loc, gh)

\* ------------------------------------------------------ pruneExpiredCache
PruneIsExpiredGeq(ageMs, ttlMs) == ageMs >= ttlMs

PruneIsExpired(ageMs, ttlMs) == ageMs > ttlMs

CallPruneExpiredCache(p) ==
  \E ttl \in TTLs :
    Begin(p, "pruneExpiredCache", NoKey, ttl, NoResult, "pe_list",
          [NoGh EXCEPT !.pre = files], Paths)

PruneExpiredCacheList(p) ==
  /\ pc[p] = "pe_list"
  /\ UNCHANGED <<dirExists, files, now, ops, stored>>
  /\ \E fail \in (IF dirExists THEN MayFail ELSE {FALSE}) :
       /\ Failed(fail)
       /\ IF ~dirExists \/ fail \/ JsonFiles = {}
            THEN Finish(p, IF fail THEN PruneExpiredCacheCatch(0) ELSE RetCount(0),
                        [gh[p] EXCEPT !.flt = fail], loc, gh)
            ELSE Goto(p, "pe_file", [loc[p] EXCEPT !.todo = JsonFiles],
                      gh[p], loc, gh)

\* The loop goes on with the files left, or returns the count.
PruneNext(p, l, g, L) ==
  IF l.todo = {}
    THEN Finish(p, RetCount(l.count), g, L, gh)
    ELSE Goto(p, "pe_file", l, g, L, gh)

\* One turn of the loop, up to the decision: readFileSync, JSON.parse, the age.
PruneExpiredCacheFile(p) ==
  /\ pc[p] = "pe_file"
  /\ UNCHANGED <<dirExists, files, ops, stored>>
  /\ \E f \in loc[p].todo, fail \in MayFail :
       LET file == files[f]
           l == [loc[p] EXCEPT !.todo = @ \ {f}, !.file = f]
           g == [gh[p] EXCEPT !.flt = @ \/ fail]
       IN
         /\ Failed(fail)
         /\ IF fail \/ ~file.exists \/ ~ParseOk(file.data)
              THEN /\ Goto(p, "pe_unlink_catch", l, g, loc, gh)
                   /\ UNCHANGED now
              ELSE \E t \in Instants :
                     /\ DateNow(t)
                     /\ LET ageMs == t - ParseEntry(file.data).timestamp
                            ttlMs == TtlMs(call[p].ttl)
                            h == [g EXCEPT !.atf[f] = t]
                        IN IF PruneIsExpired(ageMs, ttlMs)
                             THEN Goto(p, "pe_unlink_try", l, h, loc, gh)
                             ELSE PruneNext(p, l, h, loc)

\* fs.unlinkSync(filePath); pruned++;  inside the try block: a throw enters the
\* catch block, which unlinks again.
PruneExpiredCacheUnlinkTry(p) ==
  /\ pc[p] = "pe_unlink_try"
  /\ \E fail \in MayFail :
       LET f == loc[p].file IN
         /\ Failed(fail)
         /\ IF fail \/ ~files[f].exists
              THEN /\ Goto(p, "pe_unlink_catch", loc[p],
                           [gh[p] EXCEPT !.flt = @ \/ fail], loc, gh)
                   /\ UNCHANGED files
              ELSE /\ files' = [files EXCEPT ![f] = NoFile]
                   /\ PruneNext(p, [loc[p] EXCEPT !.count = @ + 1],
                                [gh[p] EXCEPT !.removed = @ \cup {f}], LocUnlinked(f))
  /\ UNCHANGED <<dirExists, now, ops, stored>>

\* fs.unlinkSync(filePath); pruned++;  inside the catch block: a throw reaches
\* the outer catch, which returns 0.
PruneExpiredCacheUnlinkCatch(p) ==
  /\ pc[p] = "pe_unlink_catch"
  /\ \E fail \in MayFail :
       LET f == loc[p].file IN
         /\ Failed(fail)
         /\ IF fail \/ ~files[f].exists
              THEN /\ UNCHANGED files
                   /\ Finish(p, PruneExpiredCacheCatch(loc[p].count),
                             [gh[p] EXCEPT !.flt = @ \/ fail], loc, gh)
              ELSE /\ files' = [files EXCEPT ![f] = NoFile]
                   /\ PruneNext(p, [loc[p] EXCEPT !.count = @ + 1],
                                [gh[p] EXCEPT !.removed = @ \cup {f}], LocUnlinked(f))
  /\ UNCHANGED <<dirExists, now, ops, stored>>

\* ------------------------------------------------------------ analyzeDiff
ConfigKeys == {"cache", "cacheTTL"}

DEFAULT_CONFIG == [cache |-> Some(TRUE), cacheTTL |-> Some(DEFAULT_TTL_HOURS)]

\* What validateConfig lets through from a config file (no file: nothing set).
FileConfigs == [cache : {UNDEF, Some(TRUE), Some(FALSE)}, cacheTTL : {UNDEF}]

\* { ...DEFAULT_CONFIG, ...fileConfig, ...(the cliOptions that are not undefined) }
mergeConfig(fileConfig, cliOptions) ==
  [f \in ConfigKeys |->
     IF cliOptions[f] # UNDEF THEN cliOptions[f]
     ELSE IF fileConfig[f] # UNDEF THEN fileConfig[f]
     ELSE DEFAULT_CONFIG[f]]

\* runAnalyze: getConfig({ ..., cache: !options.noCache }).
RunAnalyzeCliOptions(noCache) == [cache |-> Some(~noCache), cacheTTL |-> UNDEF]

getConfig(fileConfig, cliOptions) == mergeConfig(fileConfig, cliOptions)

\* const useCache = !options.noCache && config.cache !== false;
UseCache(noCache, config) == ~noCache /\ config.cache # Some(FALSE)

\* analyzeDiff is called with the overview prompt type, and with the detailed
\* one for each file of a --per-file run.
PromptTypes == {"overview", "detailed"}

OVERVIEW_PROMPT == "OVERVIEW_PROMPT"
DETAILED_PROMPT == "DETAILED_PROMPT"

\* config.customPrompt || (promptType === 'detailed' ? DETAILED_PROMPT : OVERVIEW_PROMPT)
SelectPrompt(customPrompt, promptType) ==
  IF customPrompt # UNDEF THEN customPrompt[1]
  ELSE IF promptType = "detailed" THEN DETAILED_PROMPT ELSE OVERVIEW_PROMPT

\* provider.summarize(diff, prompt): the results the provider can give for the
\* prompt; a result is the answer to one prompt.
Summaries(prompt) ==
  IF prompt = OVERVIEW_PROMPT THEN { <<1>> }
  ELSE IF prompt = DETAILED_PROMPT THEN { <<2, 2>> }
  ELSE {}

AnUnchanged == UNCHANGED <<dirExists, files, now, ops, faults, pc, call, loc, gh,
                           last, stored, given, px>>

\* runAnalyze loads the configuration and calls analyzeDiff, which looks the
\* diff up in the cache when caching is in use.
AnalyzeStart(p) ==
  /\ an[p] = NoAn
  /\ \A q \in Procs : q < p => an[q] # NoAn
  /\ runs < MaxRuns
  /\ runs' = runs + 1
  /\ \E k \in Keys, noCache \in BOOLEAN, fileConfig \in FileConfigs,
        promptType \in PromptTypes :
       LET config == getConfig(fileConfig, RunAnalyzeCliOptions(noCache))
           a == [NoAn EXCEPT !.key = k, !.ttl = config.cacheTTL[1],
                             !.promptType = promptType,
                             !.noCache = noCache, !.fileCache = fileConfig.cache,
                             !.useCache = UseCache(noCache, config)]
       IN IF a.useCache
            THEN /\ Enter(p, "getCached", k, a.ttl, NoResult, "gc_exists",
                          GhGetCached(k), {})
                 /\ an' = [an EXCEPT ![p] = [a EXCEPT !.phase = "lookup",
                                                      !.events = <<"lookup">>]]
            ELSE /\ an' = [an EXCEPT ![p] = [a EXCEPT !.phase = "summarize"]]
                 /\ AnUnchanged

\* provider.summarize(diff, prompt) is called.
AnalyzeSummarize(p) ==
  /\ an[p].phase = "summarize"
  /\ an' = [an EXCEPT ![p] = [@ EXCEPT !.phase = "await",
                                       !.events = Append(@, "provider")]]
  /\ UNCHANGED runs
  /\ AnUnchanged

\* The provider's promise settles: rejected, analyzeDiff throws; fulfilled,
\* the result is stored when caching is in use, and returned.
AnalyzeSettled(p) ==
  /\ an[p].phase = "await"
  /\ UNCHANGED runs
  /\ \E ok \in BOOLEAN, r \in Summaries(SelectPrompt(UNDEF, an[p].promptType)) :
       LET a == [an[p] EXCEPT !.result = IF ok THEN r ELSE NoResult] IN
         IF an[p].useCache /\ ok
           THEN /\ Enter(p, "setCache", a.key, 0, a.result, "sc_ensure",
                         GhSetCache(p, a.key), {PathOfKey(a.key)})
                /\ an' = [an EXCEPT ![p] = [a EXCEPT !.phase = "store",
                                                     !.events = Append(@, "store")]]
           ELSE /\ an' = [an EXCEPT ![p] =
                            [a EXCEPT !.phase = IF ok THEN "return" ELSE "throw",
                                      !.ret = IF ok THEN RetResult(r) ELSE RetThrow]]
                /\ AnUnchanged

\* analyzeDiff has returned or thrown.
AnalyzeDone(p) ==
  /\ an[p].phase \in {"return", "throw"}
  /\ an' = [an EXCEPT ![p] = NoAn]
  /\ UNCHANGED runs
  /\ AnUnchanged

Next ==
  \/ \E p \in Procs : CallGetCached(p)
  \/ \E p \in Procs : GetCachedExists(p)
  \/ \E p \in Procs : GetCachedRead(p)
  \/ \E p \in Procs : GetCachedUnlink(p)
  \/ \E p \in Procs : CallSetCache(p)
  \/ \E p \in Procs : SetCacheEnsureDir(p)
  \/ \E p \in Procs : SetCacheOpen(p)
  \/ \E p \in Procs : SetCacheWrite(p)
  \/ \E p \in Procs : CallClearCache(p)
  \/ \E p \in Procs : ClearCacheList(p)
  \/ \E p \in Procs : ClearCacheUnlink(p)
  \/ \E p \in Procs : CallGetCacheStats(p)
  \/ \E p \in Procs : GetCacheStatsList(p)
  \/ \E p \in Procs : GetCacheStatsFile(p)
  \/ \E p \in Procs : CallPruneExpiredCache(p)
  \/ \E p \in Procs : PruneExpiredCacheList(p)
  \/ \E p \in Procs : PruneExpiredCacheFile(p)
  \/ \E p \in Procs : PruneExpiredCacheUnlinkTry(p)
  \/ \E p \in Procs : PruneExpiredCacheUnlinkCatch(p)

Spec == Init /\ [][Next]_vars

\* One process only: the calls run one after another.
NextSeq ==
  \/ CallGetCached(1)
  \/ GetCachedExists(1)
  \/ GetCachedRead(1)
  \/ GetCachedUnlink(1)
  \/ CallSetCache(1)
  \/ SetCacheEnsureDir(1)
  \/ SetCacheOpen(1)
  \/ SetCacheWrite(1)
  \/ CallClearCache(1)
  \/ ClearCacheList(1)
  \/ ClearCacheUnlink(1)
  \/ CallGetCacheStats(1)
  \/ GetCacheStatsList(1)
  \/ GetCacheStatsFile(1)
  \/ CallPruneExpiredCache(1)
  \/ PruneExpiredCacheList(1)
  \/ PruneExpiredCacheFile(1)
  \/ PruneExpiredCacheUnlinkTry(1)
  \/ PruneExpiredCacheUnlinkCatch(1)

SpecSeq == Init /\ [][NextSeq]_vars

\* Analyses only: every cache call is made by an analyzeDiff.
NextAnalyze ==
  \/ \E p \in Procs : AnalyzeStart(p)
  \/ \E p \in Procs : GetCachedExists(p)
  \/ \E p \in Procs : GetCachedRead(p)
  \/ \E p \in Procs : GetCachedUnlink(p)
  \/ \E p \in Procs : AnalyzeSummarize(p)
  \/ \E p \in Procs : AnalyzeSettled(p)
  \/ \E p \in Procs : SetCacheEnsureDir(p)
  \/ \E p \in Procs : SetCacheOpen(p)
  \/ \E p \in Procs : SetCacheWrite(p)
  \/ \E p \in Procs : AnalyzeDone(p)

SpecAnalyze == Init /\ [][NextAnalyze]_vars

\* ----------------------------------------------------------- parser calls
\* The parser functions are pure: each is applied to a text that nothing was
\* applied to yet.
PxUnchanged == UNCHANGED <<dirExists, files, now, ops, faults, pc, call, loc, gh,
                           last, stored, given, an, runs>>

InitParse ==
  /\ InitCache
  /\ px \in { [NoPx EXCEPT !.text = t] : t \in Texts }
          \cup { [NoPx EXCEPT !.text = DocText(d), !.doc = d] : d \in Docs }

SplitDiffByFile ==
  /\ px.fn = "none"
  /\ px' = [px EXCEPT !.fn = "splitDiffByFile", !.chunks = splitDiffByFile(px.text)]
  /\ PxUnchanged

ParseDiff ==
  /\ px.fn = "none"
  /\ px' = [px EXCEPT !.fn = "parseDiff", !.parsed = parseDiff(px.text)]
  /\ PxUnchanged

\* getDiffStats(parseDiff(diff)), as renderDiffSummary calls it
GetDiffStats ==
  /\ px.fn = "parseDiff"
  /\ px' = [px EXCEPT !.fn = "getDiffStats", !.stats = getDiffStats(px.parsed)]
  /\ PxUnchanged

NextParse ==
  \/ SplitDiffByFile
  \/ ParseDiff
  \/ GetDiffStats

SpecParse == InitParse /\ [][NextParse]_vars

\* ---------------------------------------------------------- renderer calls
MaxWidths == {0, 1, 2, 8}

RenderOptions ==
  [colors : {UNDEF, Some(FALSE)}, lineNumbers : {UNDEF, Some(FALSE)},
   contextLines : {UNDEF}, maxWidth : {UNDEF} \cup { Some(w) : w \in MaxWidths }]

\* The diffs given to the renderer: the well-formed ones and every text of at
\* most two lines.
InitRender ==
  /\ InitCache
  /\ px \in { [NoPx EXCEPT !.text = Join(ls)] : ls \in SeqsUpTo(Lines, 2) }
          \cup { [NoPx EXCEPT !.text = DocText(d), !.doc = d] : d \in Docs }

RenderDiff(options) ==
  /\ px.fn = "none"
  /\ px' = [px EXCEPT !.fn = "renderDiff", !.options = options,
                      !.rendered = renderDiff(px.text, options)]
  /\ PxUnchanged

NextRender == \E options \in RenderOptions : RenderDiff(options)

SpecRender == InitRender /\ [][NextRender]_vars

\* ------------------------------------------------------- two-column calls
\* The widths given to the two-column view: those of the annotated view and
\* the first two that leave room for the separator.
SideWidths == MaxWidths \cup {3, 4}

SideOptions ==
  [colors : {UNDEF, Some(FALSE)}, lineNumbers : {UNDEF}, contextLines : {UNDEF},
   maxWidth : {UNDEF} \cup { Some(w) : w \in SideWidths }]

\* The diff and the annotation are texts of at most two of these lines.
SideLines == { <<>>, L_TEXT, L_ADD, L_DEL, L_HDR_XX }

SideTexts == { Join(ls) : ls \in SeqsUpTo(SideLines, 2) }

InitSide ==
  /\ InitCache
  /\ px \in { [NoPx EXCEPT !.text = t] : t \in SideTexts }

RenderSideBySide(intent, options) ==
  /\ px.fn = "none"
  /\ px' = [px EXCEPT !.fn = "renderSideBySide", !.intent = intent,
                      !.options = options,
                      !.rendered = renderSideBySide(px.text, intent, options)]
  /\ PxUnchanged

NextSide ==
  \/ \E options \in RenderOptions : RenderDiff(options)
  \/ \E intent \in SideTexts, options \in SideOptions : RenderSideBySide(intent, options)

SpecSide == InitSide /\ [][NextSide]_vars

\* ------------------------------------------------------------ filter calls
L_HDR_DIR == <<"d", "i", "f", "f", " ", "-", "-", "g", "i", "t", " ", "a", "/", "d", "/", "x", " ", "b", "/", "d", "/", "x">>
PATH_DIR_X == <<"d", "/", "x">>
STAR == <<"*">>

\* The lines of the texts given to the filter, and the ignore patterns.
FilterLines == { <<>>, L_HDR_XX, L_HDR_XY, L_HDR_DIR, L_HDR_BAD, L_ADD, L_TEXT }

Patterns == { PATH_X, PATH_Y, PATH_DIR_X, STAR }

InitFilter ==
  /\ InitCache
  /\ px \in { [NoPx EXCEPT !.text = Join(ls)] : ls \in SeqsUpTo(FilterLines, MaxLines) }

FilterIgnoredFiles(patterns) ==
  /\ px.fn = "none"
  /\ px' = [px EXCEPT !.fn = "filterIgnoredFiles", !.patterns = patterns,
                      !.filtered = filterIgnoredFiles(px.text, patterns)]
  /\ PxUnchanged

NextFilter == \E patterns \in SeqsUpTo(Patterns, 2) : FilterIgnoredFiles(patterns)

SpecFilter == InitFilter /\ [][NextFilter]_vars

\* --------------------------------------------------------------- key calls
\* Providers, models and diff texts with and without the character `:`.
KeyParts == { <<"a">>, <<":">>, <<"a", ":">>, <<"a", ":", "a">> }

KeyTriples == [diff : KeyParts, provider : KeyParts, model : KeyParts]

\* Two requests.
InitKey ==
  /\ InitCache
  /\ px \in { [NoPx EXCEPT !.keys = <<k1, k2>>] : k1 \in KeyTriples, k2 \in KeyTriples }

\* The cache path of each of the two requests, as getCached and setCache
\* compute it.
GetCachePaths ==
  /\ px.fn = "none"
  /\ px' = [px EXCEPT !.fn = "getCachePath",
                      !.paths = [i \in 1..2 |-> PathOfKey(px.keys[i])]]
  /\ PxUnchanged

SpecKey == InitKey /\ [][GetCachePaths]_vars

\* ================================================================ claims
\* `last` describes the call that has just returned; in that state `files`
\* is the directory as the call left it.
HOUR_MS == 3600000

Returned(op) == last.call.op = op
LastPath == PathOfKey(last.call.key)
LastTtlMs == last.call.ttl * HOUR_MS
LastAge == last.gh.at - last.gh.expTs
LastRead == last.gh.read
LastReadParses == LastRead.exists /\ ParseOk(LastRead.data)
LastReadAge == last.gh.at - ParseEntry(LastRead.data).timestamp

RECURSIVE SumSizes(_, _)
SumSizes(S, F) ==
  IF S = {} THEN 0
  ELSE LET f == CHOOSE x \in S : TRUE
       IN Len(F[f].data) + SumSizes(S \ {f}, F)

MinOrNull(T) == IF T = {} THEN NULL ELSE CHOOSE t \in T : \A u \in T : t <= u

GivenAt(f) == UNION { given[k] : k \in { j \in Keys : PathOfKey(j) = f } }

\* C1 (as stated): after a store of r completed, a lookup with the same
\* arguments returns r, provided no clearAll, pruneExpired or other store on the
\* fingerprint ran meanwhile and the entry's age does not exceed the TTL.
C1_Original ==
  ( /\ Returned("getCached")
    /\ last.gh.origOk
    /\ ~last.gh.flt
    /\ LastAge <= LastTtlMs )
  => last.ret = RetResult(last.gh.expect)

\* C1 (amended): the same, provided also that no lookup on the fingerprint
\* deleted the file as expired while the store was writing or afterwards.
C1_StoreThenLookup ==
  ( /\ Returned("getCached")
    /\ last.gh.amendOk
    /\ ~last.gh.flt
    /\ LastAge <= LastTtlMs )
  => last.ret = RetResult(last.gh.expect)

\* A lookup that follows a store returns its result at an age of exactly the TTL.
C1_Witness ==
  /\ Returned("getCached")
  /\ last.gh.amendOk
  /\ ~last.gh.flt
  /\ last.call.ttl = DEFAULT_TTL_HOURS
  /\ LastAge = DEFAULT_TTL_HOURS * HOUR_MS
  /\ last.ret = RetResult(last.gh.expect)

\* C2: expiry is enforced on read.  A lookup that read a parseable entry
\* returns absent when the entry's age is strictly greater than ttlHours *
\* 3 600 000 ms, and then deletes the entry (it is gone when the lookup ran
\* undisturbed and the unlink did not fail); otherwise it returns the stored
\* result, deletes nothing and (undisturbed) leaves the file as it read it.
C2_ExpiryOnRead ==
  (Returned("getCached") /\ LastReadParses) =>
     IF LastReadAge > LastTtlMs
       THEN /\ last.ret = RetNull
            /\ (last.gh.alone /\ ~last.gh.flt) =>
                  /\ last.gh.removed = {LastPath}
                  /\ ~files[LastPath].exists
       ELSE /\ last.ret = RetResult(ParseEntry(LastRead.data).result)
            /\ last.gh.removed = {}
            /\ last.gh.alone => files[LastPath] = LastRead

\* TTL 0 and an entry aged 1 ms: a miss that removes the entry.
C2_Witness ==
  /\ Returned("getCached")
  /\ LastReadParses
  /\ last.call.ttl = 0
  /\ LastReadAge = 1
  /\ last.ret = RetNull
  /\ last.gh.removed = {LastPath}
  /\ ~files[LastPath].exists

\* C3: lookup never raises.  It returns a result or absent, and absent
\* whenever the file is missing, cannot be read or does not parse.
C3_LookupNeverRaises ==
  Returned("getCached") =>
    /\ last.ret.kind \in {"null", "result"}
    /\ (last.gh.flt \/ ~LastReadParses) => last.ret = RetNull

\* The entry was there at the existence check and gone at the read.
C3_Witness ==
  /\ Returned("getCached")
  /\ last.gh.existed
  /\ ~last.gh.flt
  /\ ~LastRead.exists
  /\ last.ret = RetNull

\* C4: whatever a lookup interleaves with, it returns absent or a result
\* that was passed in full to some store on the same fingerprint; it never
\* raises.
C4_LookupDuringStore ==
  Returned("getCached") =>
    \/ last.ret = RetNull
    \/ /\ last.ret.kind = "result"
       /\ last.ret.result \in GivenAt(LastPath)

\* A lookup that overlapped a store read a file holding one store's entry
\* followed by the rest of another's, and returned absent.
C4_Witness ==
  /\ Returned("getCached")
  /\ ~last.gh.alone
  /\ ~last.gh.flt
  /\ LastRead.exists
  /\ Len(LastRead.data) > 0
  /\ ~ParseOk(LastRead.data)
  /\ last.ret = RetNull

\* C5: last write wins.  When a store has written and no other store on the
\* fingerprint is still running, the file holds exactly the entry of the
\* store that wrote last.
C5_LastWriteWins ==
  ( /\ Returned("setCache")
    /\ last.gh.wrote
    /\ \A q \in Procs : ~(call[q].op = "setCache" /\ PathOf(q) = LastPath) )
  => files[LastPath] =
       File(Stringify(CacheEntry(last.call.result, last.gh.at,
                                 last.call.key.provider, last.call.key.model)))

\* C6: store never raises.  It returns normally, and after a failed file
\* system call it writes nothing more.
C6_StoreNeverRaises ==
  Returned("setCache") =>
    /\ last.ret = RetVoid
    /\ last.gh.flt => ~last.gh.wrote

\* The write failed after the file had been truncated, and store returned.
C6_Witness ==
  /\ Returned("setCache")
  /\ last.gh.flt
  /\ last.ret = RetVoid
  /\ files[LastPath] = File(<<>>)

\* C7: pruneExpired, run on its own without a failing file system call,
\* deletes exactly the entries older than the TTL and those that do not parse,
\* leaves the others as they were, and returns how many it deleted.
C7_PruneExact ==
  (Returned("pruneExpiredCache") /\ ~last.gh.flt) =>
    /\ \A f \in Paths :
         LET was == last.gh.pre[f]
             dead == \/ ~ParseOk(was.data)
                     \/ last.gh.atf[f] - ParseEntry(was.data).timestamp > LastTtlMs
         IN IF was.exists /\ dead
              THEN f \in last.gh.removed /\ ~files[f].exists
              ELSE f \notin last.gh.removed /\ files[f] = was
    /\ last.ret = RetCount(Cardinality(last.gh.removed))

\* One entry two default TTLs old and one fresh one, TTL 24: only the old one
\* goes and the count is 1.
C7_Witness ==
  /\ Returned("pruneExpiredCache")
  /\ ~last.gh.flt
  /\ last.call.ttl = DEFAULT_TTL_HOURS
  /\ last.ret = RetCount(1)
  /\ \E f \in Paths, g \in Paths :
       /\ last.gh.pre[f].exists /\ ParseOk(last.gh.pre[f].data)
       /\ last.gh.atf[f] - ParseEntry(last.gh.pre[f].data).timestamp
            = 2 * DEFAULT_TTL_HOURS * HOUR_MS
       /\ ~files[f].exists
       /\ files[g].exists /\ ParseOk(files[g].data)
       /\ last.gh.atf[g] = ParseEntry(files[g].data).timestamp

\* C8: clearAll returns the number of entries it removed, and (no file
\* system call having failed) none of the entries it found is left.
C8_ClearAllCount ==
  Returned("clearCache") =>
    /\ last.ret = RetCount(Cardinality(last.gh.removed))
    /\ ~last.gh.flt =>
         \A f \in Paths : last.gh.pre[f].exists => files[f] # last.gh.pre[f]

\* C9: stats, run on its own without a failing file system call, counts every
\* file, sums their sizes, and reports the least timestamp among the files
\* that parse (none: absent).
C9_StatsExact ==
  (Returned("getCacheStats") /\ last.gh.alone /\ ~last.gh.flt) =>
    LET there == { f \in Paths : files[f].exists }
        stamps == { ParseEntry(files[f].data).timestamp :
                      f \in { g \in there : ParseOk(files[g].data) } }
    IN last.ret = RetStats(Cardinality(there), SumSizes(there, files),
                           MinOrNull(stamps))

\* The only entry does not parse and is not empty: it is counted, its size
\* is reported, and there is no oldest timestamp.
C9_Witness ==
  /\ Returned("getCacheStats")
  /\ last.gh.alone
  /\ ~last.gh.flt
  /\ \E f \in Paths :
       /\ files[f].exists /\ ~ParseOk(files[f].data) /\ Len(files[f].data) > 0
       /\ last.ret = RetStats(1, Len(files[f].data), NULL)

\* C10: for one provider and model, diffs that differ in any character are
\* cached apart: a lookup returns only results stored under its own diff, and
\* a store leaves the file of every other diff as it is.
SameProviderAndModel(j, k) ==
  j.provider = k.provider /\ j.model = k.model /\ j.diff # k.diff

C10_ExactMatch ==
  /\ [](Returned("getCached") /\ last.ret.kind = "result"
          => last.ret.result \in given[last.call.key])
  /\ [][\A p \in Procs :
          (call[p].op = "setCache" /\ pc'[p] # pc[p]) =>
             \A k \in Keys :
               SameProviderAndModel(k, call[p].key) =>
                 files'[PathOfKey(k)] = files[PathOfKey(k)]]_vars

\* A lookup misses although the other diff, which differs by a blank, is stored.
C10_Witness ==
  /\ Returned("getCached")
  /\ last.ret = RetNull
  /\ ~last.gh.existed
  /\ \E k \in Keys :
       /\ SameProviderAndModel(k, last.call.key)
       /\ files[PathOfKey(k)].exists
       /\ ParseOk(files[PathOfKey(k)].data)

\* ------------------------------------------------------------ analyzeDiff
Events(p) == an[p].events

\* C11: in an analysis with caching in use the calls are lookup, provider,
\* store in that order.  The provider is called only after the lookup returned
\* absent; a hit is returned as it is, with no provider call and no store; the
\* store is entered only after the provider returned a result, and an analysis
\* whose provider call failed throws without having stored.
C11_LookupProviderStore ==
  \A p \in Procs :
    (an[p].phase # "none" /\ an[p].useCache) =>
      /\ Events(p) \in { <<"lookup">>, <<"lookup", "provider">>,
                         <<"lookup", "provider", "store">> }
      /\ Len(Events(p)) >= 2 => an[p].cached = RetNull
      /\ an[p].cached.kind = "result" =>
           /\ an[p].phase = "return"
           /\ an[p].ret = an[p].cached
      /\ (Len(Events(p)) = 3 \/ call[p].op = "setCache") =>
           /\ an[p].result \in Results
           /\ an[p].phase \in {"store", "return"}
      /\ call[p].op = "setCache" => call[p].result = an[p].result
      /\ an[p].phase = "throw" => Events(p) = <<"lookup", "provider">>
      /\ an[p].phase = "return" => an[p].ret.kind = "result"

\* An analysis found the result an earlier analysis stored and returns it.
C11_Witness ==
  \E p \in Procs :
    /\ an[p].phase = "return"
    /\ an[p].useCache
    /\ an[p].cached.kind = "result"
    /\ Events(p) = <<"lookup">>
    /\ an[p].ret = an[p].cached

\* C12: when the config file sets cache to false, an analysis makes no cache
\* lookup and no cache store, whether or not --no-cache was passed.
C12_ConfigCacheFalse ==
  \A p \in Procs :
    (an[p].phase # "none" /\ an[p].fileCache = Some(FALSE)) =>
      /\ Events(p) \in { <<>>, <<"provider">> }
      /\ call[p].op = "none"

\* ------------------------------------------------------------- the parser
RECURSIVE SortedSeq(_)
SortedSeq(S) ==
  IF S = {} THEN <<>>
  ELSE LET m == CHOOSE x \in S : \A y \in S : x <= y
       IN <<m>> \o SortedSeq(S \ {m})

TextLines == Split(px.text)

\* Where the lines beginning with `diff --git ` are, in order.
MarkerLines ==
  LET tl == TextLines
  IN SortedSeq({ i \in 1..Len(tl) : StartsWith(tl[i], DIFF_GIT) })

\* C18: splitByFile returns only sections that begin with a `diff --git `
\* line: of a text with such a line, what precedes the first one is not
\* returned as a chunk.
C18_LeadingSectionDiscarded ==
  (px.fn = "splitDiffByFile" /\ Len(MarkerLines) > 0) =>
    \A i \in 1..Len(px.chunks) : StartsWith(px.chunks[i], DIFF_GIT)

\* C19: for every input the chunks joined with a line feed are the input; and
\* for an input of n >= 1 sections that each begin with a `diff --git ` line
\* there are n chunks, chunk i beginning with the i-th such line and holding
\* no other.
C19_SplitPartitions ==
  px.fn = "splitDiffByFile" =>
    /\ Join(px.chunks) = px.text
    /\ (Len(MarkerLines) > 0 /\ MarkerLines[1] = 1) =>
         /\ Len(px.chunks) = Len(MarkerLines)
         /\ \A i \in 1..Len(px.chunks) :
              LET ls == Split(px.chunks[i]) IN
                /\ ls[1] = TextLines[MarkerLines[i]]
                /\ \A j \in 2..Len(ls) : ~StartsWith(ls[j], DIFF_GIT)

\* Two sections, the first of two lines: two chunks.
C19_Witness ==
  /\ px.fn = "splitDiffByFile"
  /\ px.text = Join(<<L_HDR_XX, L_ADD, L_HDR_BAD>>)
  /\ px.chunks = << Join(<<L_HDR_XX, L_ADD>>), L_HDR_BAD >>

\* The line is `diff --git a/<old> b/<new>` for these two paths.
IsHeaderOf(line, old, new) ==
  /\ Len(old) >= 1
  /\ Len(new) >= 1
  /\ line = DIFF_GIT \o A_SLASH \o old \o B_SLASH \o new

HasHeaderShape(line) ==
  \E k \in 1..Len(line) :
    IsHeaderOf(line, SubSeq(line, Len(DIFF_GIT \o A_SLASH) + 1, k),
               Slice(line, k + Len(B_SLASH)))

\* The sections whose first line has the shape of a header, in order: the
\* numbers of their first lines.
HeaderLines ==
  LET tl == TextLines
  IN SortedSeq({ i \in 1..Len(tl) : HasHeaderShape(tl[i]) })

\* C13: parse returns a sequence of file records for every text: one record,
\* in input order, for each section whose first line is
\* `diff --git a/<old> b/<new>`, with these paths, and none for other sections.
C13_ParseTotal ==
  px.fn = "parseDiff" =>
    LET tl == TextLines
        hl == HeaderLines
    IN /\ Len(px.parsed) = Len(hl)
       /\ \A i \in 1..Len(px.parsed) :
            /\ IsHeaderOf(tl[hl[i]], px.parsed[i].oldPath, px.parsed[i].newPath)
            /\ px.parsed[i].isBinary \in BOOLEAN
            /\ px.parsed[i].isRenamed = (px.parsed[i].oldPath # px.parsed[i].newPath)

\* A section without a proper header between two with one: two records.
C13_Witness ==
  /\ px.fn = "parseDiff"
  /\ px.text = Join(<<L_TEXT, L_HDR_XY, L_HDR_BAD, L_HDR_XX>>)
  /\ Len(px.parsed) = 2
  /\ px.parsed[1].newPath = PATH_Y
  /\ px.parsed[2].newPath = PATH_X

\* Every hunk of every parsed file.
ParsedHunks ==
  UNION { { px.parsed[f].hunks[h] : h \in 1..Len(px.parsed[f].hunks) }
          : f \in 1..Len(px.parsed) }

\* How many of the lines 2..j-1 of the hunk are of one of the types.
Before(hunk, j, types) ==
  Cardinality({ i \in 2..(j - 1) : hunk.lines[i].type \in types })

\* C14: in every parsed hunk the first line is the header, without numbers,
\* and no other line is one; a context line carries both counters and advances
\* both, an addition only the new one, a deletion only the old one, the
\* counters starting at oldStart and newStart.
C14_LineNumbers ==
  px.fn = "parseDiff" =>
    \A hunk \in ParsedHunks :
      /\ Len(hunk.lines) >= 1
      /\ hunk.lines[1].type = "header"
      /\ hunk.lines[1].oldLineNumber = UNDEF
      /\ hunk.lines[1].newLineNumber = UNDEF
      /\ \A j \in 2..Len(hunk.lines) :
           LET line == hunk.lines[j]
               old == hunk.oldStart + Before(hunk, j, {"context", "deletion"})
               new == hunk.newStart + Before(hunk, j, {"context", "addition"})
           IN /\ line.type \in {"context", "addition", "deletion"}
              /\ line.oldLineNumber =
                   IF line.type = "addition" THEN UNDEF ELSE Some(old)
              /\ line.newLineNumber =
                   IF line.type = "deletion" THEN UNDEF ELSE Some(new)

\* A context line and an addition after `@@ -7,2 +9,3 @@`: 7/9 and -/10.
C14_Witness ==
  /\ px.fn = "parseDiff"
  /\ \E hunk \in ParsedHunks :
       /\ hunk.oldStart = 7 /\ hunk.newStart = 9
       /\ Len(hunk.lines) = 3
       /\ hunk.lines[2] = ParsedLine("context", <<"c">>, Some(7), Some(9))
       /\ hunk.lines[3] = ParsedLine("addition", <<"a">>, UNDEF, Some(10))

\* The section that begins at line `from` of the lines tl: up to the next
\* line that begins with `diff --git `, or to the end.
SectionFrom(tl, from) ==
  LET ends == { m \in (from + 1)..Len(tl) : StartsWith(tl[m], DIFF_GIT) }
                 \cup { Len(tl) + 1 }
  IN SubSeq(tl, from, (CHOOSE m \in ends : \A n \in ends : m <= n) - 1)

HasBinaryLine(ls) == \E j \in 1..Len(ls) : StartsWith(ls[j], BINARY_FILES)

\* C15: a record is binary exactly when a line of its section begins with
\* `Binary files`, and a binary record has no hunks, whatever else the section
\* holds.
C15_BinaryNoHunks ==
  px.fn = "parseDiff" =>
    LET tl == TextLines
        hl == SortedSeq({ i \in 1..Len(tl) : HasHeaderShape(tl[i]) })
    IN \A i \in 1..Len(px.parsed) :
         /\ px.parsed[i].isBinary = HasBinaryLine(SectionFrom(tl, hl[i]))
         /\ px.parsed[i].isBinary => px.parsed[i].hunks = <<>>

\* A section with a hunk header and an addition before its Binary line.
C15_Witness ==
  /\ px.fn = "parseDiff"
  /\ px.text = Join(<<L_HDR_XX, L_HUNK_A, L_ADD, L_BIN>>)
  /\ Len(px.parsed) = 1
  /\ px.parsed[1].isBinary
  /\ px.parsed[1].hunks = <<>>

\* How many lines of the text begin with the character but not with three of it.
Marked(c) ==
  LET tl == TextLines
  IN Cardinality({ i \in 1..Len(tl) :
                     StartsWith(tl[i], <<c>>) /\ ~StartsWith(tl[i], <<c, c, c>>) })

\* C16: for a well-formed diff, the stats of its parse are the number of lines
\* that begin with + but not +++, the number that begin with - but not ---,
\* and the number of files, binary ones included.
C16_StatsCount ==
  (px.fn = "getDiffStats" /\ px.doc # <<>>) =>
    /\ px.stats.additions = Marked("+")
    /\ px.stats.deletions = Marked("-")
    /\ px.stats.filesChanged = Len(px.doc)

\* A binary file and a file with an addition, a line `+++ b/x` inside the
\* hunk, and a deletion in a second hunk: 2 files, 1 addition, 1 deletion.
C16_Witness ==
  /\ px.fn = "getDiffStats"
  /\ px.doc = << [kind |-> "binary", hunks |-> <<>>],
                 [kind |-> "modify", hunks |-> << <<L_ADD, L_NEW>>, <<L_DEL>> >>] >>
  /\ px.stats = [filesChanged |-> 2, additions |-> 1, deletions |-> 1]

\* The lines of the rendering that belong to hunks: every line but the file
\* header lines, the placeholder of a binary file and the empty lines that
\* close a file.
IsRenderedHunkLine(l) ==
  l # <<>> /\ l[1] # BOX_DR /\ l # BINARY_FILE_CHANGED

RenderedHunkLines == SelectSeq(Split(px.rendered.value), IsRenderedHunkLine)

\* The line without its line-number columns: what follows the first vertical
\* bar and the space after it; a line without columns is left as it is.
StripLineNumbers(l) ==
  LET bars == { k \in 1..Len(l) : l[k] = BOX_V }
  IN IF bars = {} THEN l
     ELSE Slice(l, (CHOOSE k \in bars : \A j \in bars : k <= j) + 1)

\* The original lines of every hunk of every non-binary file of the diff.
RECURSIVE DocHunkLines(_)
DocHunkLines(doc) ==
  IF Len(doc) = 0 THEN <<>>
  ELSE (IF doc[1].kind = "binary" THEN <<>> ELSE HunksLines(doc[1].hunks, 1))
         \o DocHunkLines(Tail(doc))

\* C17: rendering a well-formed diff with colors disabled (and the default
\* width) and removing the line-number columns from each rendered hunk line
\* gives, in order and verbatim, the original lines of every hunk of every
\* non-binary file.
C17_RoundTrip ==
  (/\ px.fn = "renderDiff"
   /\ px.doc # <<>>
   /\ px.options.colors = Some(FALSE)
   /\ px.options.maxWidth = UNDEF) =>
    /\ ~px.rendered.threw
    /\ [i \in 1..Len(RenderedHunkLines) |-> StripLineNumbers(RenderedHunkLines[i])]
         = DocHunkLines(px.doc)

\* The sections of the lines tl: the lines before the first line that begins
\* with `diff --git `, if there are any, and one section from each such line
\* to just before the next; each section is given by its first line.
SectionStarts(tl) ==
  { i \in 1..Len(tl) : i = 1 \/ StartsWith(tl[i], DIFF_GIT) }

\* The new path the first line of a section names, `unknown` if it names none.
PathOfHeader(line) ==
  IF HasHeaderShape(line)
    THEN LET k == CHOOSE k \in 1..Len(line) :
                    IsHeaderOf(line, SubSeq(line, Len(DIFF_GIT \o A_SLASH) + 1, k),
                               Slice(line, k + Len(B_SLASH)))
         IN Slice(line, k + Len(B_SLASH))
    ELSE UNKNOWN

\* The lines of the text that are in sections whose path and its basename
\* match none of the patterns.
RetainedLines(tl, patterns) ==
  LET starts == SectionStarts(tl)
      startOf(i) == CHOOSE m \in starts : m <= i /\ \A n \in starts : n <= i => n <= m
      keep(i) == ~IsIgnored(PathOfHeader(tl[startOf(i)]), patterns)
      kept == SortedSeq({ i \in 1..Len(tl) : keep(i) })
  IN [j \in 1..Len(kept) |-> tl[kept[j]]]

C21_NoException ==
  px.fn \in {"renderDiff", "renderSideBySide"} => ~px.rendered.threw

\* The text without the escape sequences of the styles.
IsPlainChar(ch) == \A k \in DOMAIN Style : ch # Style[k]

Unstyled(s) == SelectSeq(s, IsPlainChar)

\* C22: with room for the separator (maxWidth at least 3), the two-column view
\* is two heading rows and one row per index up to the longer of the two
\* texts; a row is the diff line cut or padded to exactly
\* L = floor((maxWidth - 3) / 2) characters, the separator, and the annotation
\* line cut to at most R = maxWidth - L - 3 characters, a missing line being
\* empty; without colors no row is longer than maxWidth.
C22_TwoColumnRows ==
  (px.fn = "renderSideBySide" /\ MergeOptions(px.options).maxWidth >= 3) =>
    LET opts == MergeOptions(px.options)
        L == (opts.maxWidth - 3) \div 2
        R == opts.maxWidth - L - 3
        dls == Split(px.text)
        als == Split(px.intent)
        n == IF Len(dls) >= Len(als) THEN Len(dls) ELSE Len(als)
        rows == Split(px.rendered.value)
    IN /\ ~px.rendered.threw
       /\ Len(rows) = n + 2
       /\ \A i \in 1..n :
            LET row == Unstyled(rows[i + 2])
                dl == IF i <= Len(dls) THEN dls[i] ELSE <<>>
                al == IF i <= Len(als) THEN als[i] ELSE <<>>
            IN /\ Len(row) >= L + 3
               /\ \A k \in 1..L : row[k] = IF k <= Len(dl) THEN dl[k] ELSE " "
               /\ SubSeq(row, L + 1, L + 3) = <<" ", BOX_V, " ">>
               /\ Slice(row, L + 3) = SubSeq(al, 1, IF Len(al) <= R THEN Len(al) ELSE R)
               /\ ~opts.colors => Len(rows[i + 2]) <= opts.maxWidth

\* Width 8, so L = 2 and R = 3: the one diff line is cut to two characters,
\* the second row has an empty left column, and the first annotation line is
\* cut to three.
C22_Witness ==
  /\ px.fn = "renderSideBySide"
  /\ px.options.colors = Some(FALSE)
  /\ px.options.maxWidth = Some(8)
  /\ px.text = L_HDR_XX
  /\ px.intent = Join(<<L_HDR_XX, L_TEXT>>)
  /\ Slice(Split(px.rendered.value), 2)
       = << <<"d", "i", " ", BOX_V, " ", "d", "i", "f">>,
            <<" ", " ", " ", BOX_V, " ", "x">> >>

\* C23: the header line of every file of the annotated view, rendered without
\* colors, is at most maxWidth characters long and shows the new path and the
\* one status suffix that the flags of the file select in the order new,
\* deleted, renamed.
C23_HeaderSized ==
  (px.fn = "renderDiff" /\ px.options.colors = Some(FALSE) /\ ~px.rendered.threw) =>
    LET opts == MergeOptions(px.options)
        parsed == parseDiff(px.text)
        rows == Split(px.rendered.value)
        isHeader(l) == l # <<>> /\ l[1] = BOX_DR
        headers == SelectSeq(rows, isHeader)
        suffix(f) == IF f.isNew THEN STATUS_NEW
                     ELSE IF f.isDeleted THEN STATUS_DELETED
                     ELSE IF f.isRenamed
                       THEN STATUS_RENAMED_FROM \o f.oldPath \o <<")">>
                     ELSE <<>>
    IN /\ Len(headers) = Len(parsed)
       /\ \A i \in 1..Len(parsed) :
            /\ StartsWith(headers[i], <<BOX_DR, BOX_H, " ">> \o parsed[i].newPath
                                        \o suffix(parsed[i]) \o <<" ">>)
            /\ Len(headers[i]) <= opts.maxWidth

\* The four numbers of a hunk.
Ranges(hunk) == <<hunk.oldStart, hunk.oldCount, hunk.newStart, hunk.newCount>>

\* C24: a parsed hunk has the starts and the counts its header writes, a count
\* written as 0 included, and the count 1 where the header omits it, whatever
\* lines follow the header: `@@ -1 +2 @@` gives 1, 1, 2, 1 and
\* `@@ -7,2 +9,3 @@ f` gives 7, 2, 9, 3 in every text, and hunk h of a file of a
\* well-formed diff gives the numbers its header was written from.
C24_HunkHeader ==
  px.fn = "parseDiff" =>
    /\ \A hunk \in ParsedHunks :
         /\ hunk.lines[1].content = L_HUNK_A => Ranges(hunk) = <<1, 1, 2, 1>>
         /\ hunk.lines[1].content = L_HUNK_B => Ranges(hunk) = <<7, 2, 9, 3>>
    /\ px.doc # <<>> =>
         /\ Len(px.parsed) = Len(px.doc)
         /\ \A f \in 1..Len(px.doc) :
              /\ Len(px.parsed[f].hunks) = Len(px.doc[f].hunks)
              /\ \A h \in 1..Len(px.doc[f].hunks) :
                   Ranges(px.parsed[f].hunks[h])
                     = << 9 * h - 8, OldSide(px.doc[f].hunks[h]),
                          9 * h - 7, NewSide(px.doc[f].hunks[h]) >>

\* A hunk of one addition, `@@ -1,0 +2 @@`: old count 0 as written, new count
\* 1 as omitted.
C24_Witness ==
  /\ px.fn = "parseDiff"
  /\ px.doc = << [kind |-> "modify", hunks |-> << <<L_ADD>> >>] >>
  /\ Ranges(px.parsed[1].hunks[1]) = <<1, 0, 2, 1>>

\* How many lines of the hunk are of one of the types.
LinesOfTypes(hunk, types) ==
  Cardinality({ i \in 1..Len(hunk.lines) : hunk.lines[i].type \in types })

\* C29: in every parsed hunk the context and deletion lines are at most
\* oldCount and the context and addition lines at most newCount.
C29_HunkExtent ==
  px.fn = "parseDiff" =>
    \A hunk \in ParsedHunks :
      /\ LinesOfTypes(hunk, {"context", "deletion"}) <= hunk.oldCount
      /\ LinesOfTypes(hunk, {"context", "addition"}) <= hunk.newCount

\* This step is pruneExpiredCache of process q unlinking the file at path f.
PruneUnlinks(q, f) ==
  /\ pc[q] \in {"pe_unlink_try", "pe_unlink_catch"}
  /\ pc'[q] # pc[q]
  /\ loc[q].file = f
  /\ files[f].exists
  /\ ~files'[f].exists

\* The file at path f is at rest: no store has opened it and not yet written.
AtRest(f) == \A p \in Procs : ~(pc[p] = "sc_write" /\ PathOf(p) = f)

\* C25: a prune never undoes a store: whenever pruneExpiredCache(ttl) unlinks
\* a file, the file is at rest and holds either no entry (corrupt) or an entry
\* whose age exceeds ttl; so the entry of a completed store stays while its
\* age is within ttl.
C25_PruneSparesStore ==
  [][ \A q \in Procs, f \in Paths :
        PruneUnlinks(q, f) =>
          /\ AtRest(f)
          /\ \/ ~ParseOk(files[f].data)
             \/ now - ParseEntry(files[f].data).timestamp > TtlMs(call[q].ttl) ]_vars

\* C27: the result an analysis returns is an answer to the prompt of that
\* analysis, also when it comes from the cache.
C27_SamePrompt ==
  \A p \in Procs :
    an[p].phase = "return" =>
      an[p].ret.result \in Summaries(SelectPrompt(UNDEF, an[p].promptType))

\* C26: two requests that differ in the provider, the model or the diff text
\* have different cache paths, also when a component holds the character `:`.
C26_KeySeparates ==
  (px.fn = "getCachePath" /\ px.keys[1] # px.keys[2]) => px.paths[1] # px.paths[2]

\* The call process p is in, in this step: the call it enters when it is idle.
CallInStep(p) == IF pc[p] = "idle" THEN call'[p] ELSE call[p]

\* This step is a step of process p.
StepOf(p) == pc'[p] # pc[p] \/ loc'[p].todo # loc[p].todo

\* C28: frame of the cache operations.  A step of a lookup for fingerprint f
\* leaves every file as it is or removes the file of f, so it creates no entry
\* and touches no other one; a step of stats changes no file; a step of a
\* store for f changes no file but that of f; and only a step of a store
\* creates the directory.
C28_Frame ==
  [][ \A p \in Procs :
        StepOf(p) =>
          LET c == CallInStep(p)
              f == PathOfKey(c.key)
          IN /\ c.op = "getCached" =>
                  \A g \in Paths :
                    \/ files'[g] = files[g]
                    \/ g = f /\ ~files'[g].exists
             /\ c.op = "getCacheStats" => files' = files
             /\ c.op = "setCache" =>
                  \A g \in Paths \ {f} : files'[g] = files[g]
             /\ c.op # "setCache" => dirExists' = dirExists ]_vars

\* A lookup has just removed its own expired entry while the entry of another
\* fingerprint is in the directory.
C28_Witness ==
  /\ last.call.op = "getCached"
  /\ last.gh.removed = {PathOfKey(last.call.key)}
  /\ dirExists
  /\ \E g \in Paths \ {PathOfKey(last.call.key)} : files[g].exists

\* The analysis of process p has called the provider.
CalledProvider(p) == \E i \in 1..Len(an[p].events) : an[p].events[i] = "provider"

\* C30: of two analyses of the same diff, provider and model that run
\* interleaved with caching in use, at most one calls the provider (no time
\* has passed, so no entry has expired, and no file system call has failed).
C30_ProviderOnce ==
  \A p, q \in Procs :
    ( /\ p # q
      /\ an[p].useCache /\ an[q].useCache
      /\ an[p].key = an[q].key
      /\ now = 0 /\ faults = 0 )
    => ~(CalledProvider(p) /\ CalledProvider(q))

====
